---- MODULE Spec2Model ----
(***************************************************************************)
(* A model of dsl-parser (lib/Parser.ts, lib/Lexer.ts, lib/ParseError.ts,  *)
(* lib/Visitor.ts and the README example).                                 *)
(*                                                                         *)
(* JavaScript strings are TLA+ strings (Len, SubSeq and \o work on them).  *)
(* An optional value is a sequence: <<>> is undefined, <<v>> is v.         *)
(* A JavaScript Set, which keeps insertion order, is a duplicate-free      *)
(* sequence.  Array indices and state numbers keep the 0-based values of   *)
(* the source; At(seq, i) reads the element at the 0-based index i.        *)
(***************************************************************************)
EXTENDS Integers, Sequences, FiniteSets, TLC

Undefined == <<>>

Some(v) == <<v>>

At(seq, i) == seq[i + 1]

\* Array.prototype.find / some with deepEqual: is x an element of seq
Has(seq, x) == \E n \in 1..Len(seq) : seq[n] = x

\* Array.prototype.findIndex with deepEqual: the first 0-based index, or -1
FindIndex(seq, x) ==
    IF Has(seq, x)
    THEN (CHOOSE n \in 1..Len(seq) : seq[n] = x /\ \A m \in 1..(n - 1) : seq[m] # x) - 1
    ELSE 0 - 1

\* new Set([...set, ...more]): insertion order kept, duplicates dropped
RECURSIVE SetAddAll(_, _)
SetAddAll(set, more) ==
    IF more = <<>> THEN set
    ELSE SetAddAll(IF Has(set, Head(more)) THEN set ELSE Append(set, Head(more)),
                   Tail(more))

\* el[el.length - 1], "" for the empty string
LastChar(el) == IF Len(el) = 0 THEN "" ELSE SubSeq(el, Len(el), Len(el))

\* Array.prototype.join(",") as used by the template string `${rule.children}`
RECURSIVE Join(_)
Join(strs) ==
    IF strs = <<>> THEN ""
    ELSE IF Len(strs) = 1 THEN strs[1]
    ELSE strs[1] \o "," \o Join(Tail(strs))

(***************************************************************************)
(* Parser: quantifier helpers                                              *)
(***************************************************************************)

\* Returns the base of an element
base(el) ==
    IF LastChar(el) \in {"+", "*", "?"} THEN SubSeq(el, 1, Len(el) - 1) ELSE el

\* Returns true if an element can be omitted
canOmit(el) == LastChar(el) \in {"*", "?"}

\* Returns true if an element can be repeated
canRepeat(el) == LastChar(el) \in {"+", "*"}

(***************************************************************************)
(* A RuleSet is the sequence of its entries <<[key, rules]>> in insertion  *)
(* order, which is the order `for (const key in rules)` visits them.       *)
(***************************************************************************)

\* rules.hasOwnProperty(el)
hasRules(rules, el) == \E n \in 1..Len(rules) : rules[n].key = el

\* rules[key]
rulesOf(rules, key) == (CHOOSE n \in 1..Len(rules) : rules[n].key = key)

\* the elements of every rule, in the order the nested loops visit them
RECURSIVE Flatten(_)
Flatten(seqs) == IF seqs = <<>> THEN <<>> ELSE Head(seqs) \o Flatten(Tail(seqs))

ruleElements(rules) == Flatten([n \in 1..Len(rules) |-> Flatten(rules[n].rules)])

(***************************************************************************)
(* Parser.first                                                            *)
(***************************************************************************)

\* Initialize elements: keys start empty, terminals have themselves as first
firstInit(rules) ==
    [s \in {rules[n].key : n \in 1..Len(rules)}
           \cup {base(el) : el \in {ruleElements(rules)[n] : n \in 1..Len(ruleElements(rules))}}
        |-> IF hasRules(rules, s) THEN <<>> ELSE <<s>>]

\* the loop over the elements of one rule, from element n on
RECURSIVE firstRule(_, _, _, _)
firstRule(fst, key, rule, n) ==
    IF n > Len(rule) THEN fst
    ELSE LET added == [fst EXCEPT ![key] = SetAddAll(fst[key], fst[base(rule[n])])]
         IN  IF ~canOmit(rule[n]) THEN added ELSE firstRule(added, key, rule, n + 1)

\* the loop over the rules of one key, from rule r on
RECURSIVE firstKey(_, _, _, _)
firstKey(fst, key, keyRules, r) ==
    IF r > Len(keyRules) THEN fst
    ELSE firstKey(firstRule(fst, key, keyRules[r], 1), key, keyRules, r + 1)

\* one pass of the while loop over all keys, from key k on
RECURSIVE firstPass(_, _, _)
firstPass(fst, rules, k) ==
    IF k > Len(rules) THEN fst
    ELSE firstPass(firstKey(fst, rules[k].key, rules[k].rules, 1), rules, k + 1)

\* Repeat until no changes
RECURSIVE firstLoop(_, _)
firstLoop(fst, rules) ==
    LET pass == firstPass(fst, rules, 1)
    IN  IF pass = fst THEN fst ELSE firstLoop(pass, rules)

\* Finds the terminals an element can start with
first(rules) == firstLoop(firstInit(rules), rules)

(***************************************************************************)
(* Parser.follow                                                           *)
(***************************************************************************)

\* followScan as it would be without the break at an element that cannot be left out
RECURSIVE followScanThrough(_, _, _, _, _, _)
followScanThrough(flw, fst, key, rule, el, j) ==
    IF j > Len(rule) THEN flw
    ELSE IF j = Len(rule)
         THEN [flw EXCEPT ![el] = SetAddAll(flw[el], flw[key])]
         ELSE followScanThrough(
                  [flw EXCEPT ![el] = SetAddAll(flw[el], fst[base(At(rule, j))])],
                  fst, key, rule, el, j + 1)

\* the scan j = i + 1 .. rule.length for element el (0-based i, j)
RECURSIVE followScan(_, _, _, _, _, _)
followScan(flw, fst, key, rule, el, j) ==
    IF j > Len(rule) THEN flw
    ELSE IF j = Len(rule)
         THEN [flw EXCEPT ![el] = SetAddAll(flw[el], flw[key])]
         ELSE LET added == [flw EXCEPT ![el] = SetAddAll(flw[el], fst[base(At(rule, j))])]
              IN  IF ~canOmit(At(rule, j)) THEN added
                  ELSE followScan(added, fst, key, rule, el, j + 1)

\* the loop over the elements of one rule, from 0-based index i on
RECURSIVE followRule(_, _, _, _, _, _)
followRule(flw, fst, rules, key, rule, i) ==
    IF i >= Len(rule) THEN flw
    ELSE LET el == base(At(rule, i))
         IN  IF hasRules(rules, el)
             THEN LET rep == IF canRepeat(At(rule, i))
                             THEN [flw EXCEPT ![el] = SetAddAll(flw[el], fst[el])]
                             ELSE flw
                  IN  followRule(followScan(rep, fst, key, rule, el, i + 1),
                                 fst, rules, key, rule, i + 1)
             ELSE followRule(flw, fst, rules, key, rule, i + 1)

RECURSIVE followKey(_, _, _, _, _, _)
followKey(flw, fst, rules, key, keyRules, r) ==
    IF r > Len(keyRules) THEN flw
    ELSE followKey(followRule(flw, fst, rules, key, keyRules[r], 0),
                   fst, rules, key, keyRules, r + 1)

RECURSIVE followPass(_, _, _, _)
followPass(flw, fst, rules, k) ==
    IF k > Len(rules) THEN flw
    ELSE followPass(followKey(flw, fst, rules, rules[k].key, rules[k].rules, 1),
                    fst, rules, k + 1)

RECURSIVE followLoop(_, _, _)
followLoop(flw, fst, rules) ==
    LET pass == followPass(flw, fst, rules, 1)
    IN  IF pass = flw THEN flw ELSE followLoop(pass, fst, rules)

\* Finds the terminals which can follow an element
follow(rules, start) ==
    followLoop([s \in {rules[n].key : n \in 1..Len(rules)}
                   |-> IF s = start THEN <<"$">> ELSE <<>>],
               first(rules), rules)

(***************************************************************************)
(* Parser.skipOmit, Parser.closure                                         *)
(***************************************************************************)

DottedRule(key, children, dot) == [key |-> key, children |-> children, dot |-> dot]

\* base(rule.children[rule.dot]): undefined when the dot is at the end
baseAtDot(rule) ==
    IF rule.dot < Len(rule.children) THEN Some(base(At(rule.children, rule.dot)))
    ELSE Undefined

RECURSIVE skipOmitFrom(_, _, _)
skipOmitFrom(root, i, ruleSet) ==
    IF i >= Len(root.children) THEN ruleSet
    ELSE IF ~canOmit(At(root.children, i)) THEN ruleSet
    ELSE skipOmitFrom(root, i + 1,
                      Append(ruleSet, DottedRule(root.key, root.children, i + 1)))

\* skipOmit as it would be if no element could be left out
skipOmitNothing(root) == <<root>>

\* Skips over the ommitable elements after the dot
skipOmit(root) == skipOmitFrom(root, root.dot, <<root>>)

\* push every rule of more that is not yet in ruleSet
RECURSIVE pushNew(_, _)
pushNew(ruleSet, more) ==
    IF more = <<>> THEN ruleSet
    ELSE pushNew(IF Has(ruleSet, Head(more)) THEN ruleSet ELSE Append(ruleSet, Head(more)),
                 Tail(more))

\* `for (const rule of ruleSet)`, which also visits the rules pushed meanwhile
RECURSIVE closureLoop(_, _, _)
closureLoop(rules, ruleSet, n) ==
    IF n > Len(ruleSet) THEN ruleSet
    ELSE LET nt == baseAtDot(ruleSet[n])
         IN  IF nt # Undefined /\ hasRules(rules, nt[1])
             THEN LET alts == rules[rulesOf(rules, nt[1])].rules
                      more == Flatten([a \in 1..Len(alts)
                                         |-> skipOmit(DottedRule(nt[1], alts[a], 0))])
                  IN  closureLoop(rules, pushNew(ruleSet, more), n + 1)
             ELSE closureLoop(rules, ruleSet, n + 1)

\* Expands the non-terminals after the dot recursively
closure(rules, root) == closureLoop(rules, skipOmit(root), 1)

(***************************************************************************)
(* Parser.goto.  A sparse array (cameFrom, a readStack entry) is the       *)
(* sequence of its slots up to its length; a hole and undefined are <<>>.  *)
(***************************************************************************)

\* array[index] of a sparse array: undefined past its length
Get(array, index) ==
    IF index >= 0 /\ index < Len(array) THEN At(array, index) ELSE Undefined

\* array[index] = value, the slots skipped over left as holes
RECURSIVE SetSlot(_, _, _)
SetSlot(array, index, value) ==
    IF index < Len(array) THEN [array EXCEPT ![index + 1] = value]
    ELSE IF index = Len(array) THEN Append(array, value)
    ELSE SetSlot(Append(array, Undefined), index, value)

conflictMessage(rule, kind) ==
    "Rule " \o rule.key \o " - " \o Join(rule.children) \o " is part of a " \o kind \o " conflict"

\* gotoAdd as it would be if an item found in the output again were passed over
RECURSIVE gotoAddFirstWins(_, _, _, _, _)
gotoAddFirstWins(acc, nextRules, trackedRules, rule, i) ==
    IF nextRules = <<>> THEN acc
    ELSE LET nextRule == Head(nextRules)
             step ==
                 IF Has(acc.output, nextRule) THEN acc
                 ELSE [acc EXCEPT
                         !.cameFrom = IF Has(trackedRules, nextRule)
                                      THEN SetSlot(acc.cameFrom, Len(acc.output), Some(i))
                                      ELSE acc.cameFrom,
                         !.output = Append(acc.output, nextRule)]
         IN  gotoAddFirstWins(step, Tail(nextRules), trackedRules, rule, i)

\* the loop over closure(rules, baseRule) for source item i (lines 235-248)
RECURSIVE gotoAdd(_, _, _, _, _)
gotoAdd(acc, nextRules, trackedRules, rule, i) ==
    IF nextRules = <<>> \/ acc.error # Undefined THEN acc
    ELSE LET nextRule == Head(nextRules)
             ruleIndex == FindIndex(acc.output, nextRule)
             trackCameFrom == Has(trackedRules, nextRule)
             step ==
                 IF ruleIndex = 0 - 1
                 THEN [acc EXCEPT
                         !.cameFrom = IF trackCameFrom
                                      THEN SetSlot(acc.cameFrom, Len(acc.output), Some(i))
                                      ELSE acc.cameFrom,
                         !.output = Append(acc.output, nextRule)]
                 ELSE IF \/ trackCameFrom /\ Get(acc.cameFrom, ruleIndex) # Some(i)
                         \/ ~trackCameFrom /\ Get(acc.cameFrom, ruleIndex) # Undefined
                      THEN [acc EXCEPT !.error = Some(conflictMessage(rule, "reduce/reduce"))]
                      ELSE acc
         IN  gotoAdd(step, Tail(nextRules), trackedRules, rule, i)

\* gotoAdvance as it would be if every element could be repeated
RECURSIVE gotoAdvanceAlways(_, _, _, _, _)
gotoAdvanceAlways(acc, rules, rule, i, j) ==
    IF j < 0 \/ acc.error # Undefined THEN acc
    ELSE LET baseRule == DottedRule(rule.key, rule.children, rule.dot + j)
         IN  gotoAdvanceAlways(
                 gotoAdd(acc, closure(rules, baseRule), skipOmit(baseRule), rule, i),
                 rules, rule, i, j - 1)

\* the loop `for (let j = 1; j >= 0; j--)` for source item i (lines 229-253)
RECURSIVE gotoAdvance(_, _, _, _, _)
gotoAdvance(acc, rules, rule, i, j) ==
    IF j < 0 \/ acc.error # Undefined THEN acc
    ELSE LET baseRule == DottedRule(rule.key, rule.children, rule.dot + j)
             added == gotoAdd(acc, closure(rules, baseRule), skipOmit(baseRule), rule, i)
         IN  IF ~canRepeat(At(rule.children, rule.dot)) THEN added
             ELSE gotoAdvance(added, rules, rule, i, j - 1)

\* the loop over the source items, from 0-based index i on (lines 224-255)
RECURSIVE gotoLoop(_, _, _, _, _)
gotoLoop(acc, rules, ruleSet, el, i) ==
    IF i >= Len(ruleSet) \/ acc.error # Undefined THEN acc
    ELSE IF baseAtDot(At(ruleSet, i)) = Some(el)
         THEN gotoLoop(gotoAdvance(acc, rules, At(ruleSet, i), i, 1), rules, ruleSet, el, i + 1)
         ELSE gotoLoop(acc, rules, ruleSet, el, i + 1)

\* Advances the dot after recognizing el: [output, cameFrom], or the Error thrown
goto(rules, ruleSet, el) ==
    gotoLoop([output |-> <<>>, cameFrom |-> <<>>, error |-> Undefined], rules, ruleSet, el, 0)

(***************************************************************************)
(* Parser.buildTable.  A row of the action table is a function from the    *)
(* symbols that are own properties of the row to their Action.             *)
(***************************************************************************)

EmptyRow == [s \in {} |-> s]

hasOwnProperty(row, el) == el \in DOMAIN row

Put(row, el, action) == [s \in DOMAIN row \cup {el} |-> IF s = el THEN action ELSE row[s]]

ShiftAction(gotoState, cameFrom) == [type |-> "shift", goto |-> gotoState, cameFrom |-> cameFrom]

ReduceAction(key, rule) == [type |-> "reduce", key |-> key, rule |-> rule]

AcceptAction(key) == [type |-> "accept", key |-> key]

\* buildTable as it would be without an accept for a completed item of the start symbol
acceptItemSkipped(b, rule, i, start) == b

\* acceptItem as it would be if a completed item of the start symbol were reduced on
\* '$' like any other
acceptItemReduces(b, rule, i, start) ==
    IF hasOwnProperty(At(b.table, i), "$")
    THEN [b EXCEPT !.error = Some(conflictMessage(rule, At(b.table, i)["$"].type \o "/reduce"))]
    ELSE [b EXCEPT !.table[i + 1] =
                      Put(@, "$", ReduceAction(rule.key, FindIndex(At(b.states, i), rule)))]

\* a completed item of the start symbol (lines 276-283)
acceptItem(b, rule, i, start) ==
    IF hasOwnProperty(At(b.table, i), "$")
    THEN [b EXCEPT !.error = Some(conflictMessage(rule, At(b.table, i)["$"].type \o "/reduce"))]
    ELSE [b EXCEPT !.table[i + 1] = Put(@, "$", AcceptAction(start))]

\* reduceItem as it would be without the check for double entries: the later
\* reduce replaces the action already in the row
RECURSIVE reduceItemOverwrites(_, _, _, _, _)
reduceItemOverwrites(b, rule, i, j, els) ==
    IF els = <<>> THEN b
    ELSE reduceItemOverwrites(
             [b EXCEPT !.table[i + 1] = Put(@, Head(els), ReduceAction(rule.key, j))],
             rule, i, j, Tail(els))

\* a completed item of another key: one reduce per follow symbol (lines 284-297)
RECURSIVE reduceItem(_, _, _, _, _)
reduceItem(b, rule, i, j, els) ==
    IF els = <<>> \/ b.error # Undefined THEN b
    ELSE LET el == Head(els)
         IN  IF hasOwnProperty(At(b.table, i), el)
             THEN [b EXCEPT !.error =
                      Some(conflictMessage(rule, At(b.table, i)[el].type \o "/reduce"))]
             ELSE reduceItem([b EXCEPT !.table[i + 1] = Put(@, el, ReduceAction(rule.key, j))],
                             rule, i, j, Tail(els))

\* an item with a symbol after the dot (lines 298-320)
shiftItem(b, rules, rule, i) ==
    LET el == base(At(rule.children, rule.dot))
    IN  IF hasOwnProperty(At(b.table, i), el)
        THEN IF At(b.table, i)[el].type # "shift"
             THEN [b EXCEPT !.error =
                      Some(conflictMessage(rule, "shift/" \o At(b.table, i)[el].type))]
             ELSE b
        ELSE LET g == goto(rules, At(b.states, i), el)
                 found == FindIndex(b.states, g.output)
                 gotoStateIndex == IF found = 0 - 1 THEN Len(b.states) ELSE found
             IN  IF g.error # Undefined THEN [b EXCEPT !.error = g.error]
                 ELSE [b EXCEPT
                         !.states = IF found = 0 - 1 THEN Append(b.states, g.output) ELSE @,
                         !.table[i + 1] = Put(@, el, ShiftAction(gotoStateIndex, g.cameFrom))]

\* the nested loops over the states i and their items j (lines 268-322)
RECURSIVE buildLoop(_, _, _, _, _, _)
buildLoop(b, rules, start, flw, i, j) ==
    IF b.error # Undefined \/ i >= Len(b.states) THEN b
    ELSE IF j >= Len(At(b.states, i)) THEN buildLoop(b, rules, start, flw, i + 1, 0)
    ELSE LET row == IF j = 0 THEN [b EXCEPT !.table = Append(b.table, EmptyRow)] ELSE b
             rule == At(At(b.states, i), j)
             step == IF rule.dot = Len(rule.children)
                     THEN IF rule.key = start
                          THEN acceptItem(row, rule, i, start)
                          ELSE reduceItem(row, rule, i, j, flw[rule.key])
                     ELSE shiftItem(row, rules, rule, i)
         IN  buildLoop(step, rules, start, flw, i, j + 1)

\* Builds the action table guiding the parser: [table, states], or the Error thrown
buildTable(rules, start) ==
    buildLoop([table |-> <<>>,
               states |-> <<closure(rules, DottedRule(start, <<start>>, 0))>>,
               error |-> Undefined],
              rules, start, follow(rules, start), 0, 0)

(***************************************************************************)
(* Terminals and their patterns.  A pattern is one of                      *)
(*   literal: the text itself (a regex-escaped name),                      *)
(*   one:     /[chars]/,   plus: /[chars]+/,   star: /[chars]*/.           *)
(* The Lexer constructor makes every pattern sticky, so a pattern matches  *)
(* only at lastIndex.                                                      *)
(***************************************************************************)

Literal(text) == [kind |-> "literal", text |-> text, chars |-> {}]

OneOf(chars) == [kind |-> "one", text |-> "", chars |-> chars]

PlusOf(chars) == [kind |-> "plus", text |-> "", chars |-> chars]

StarOf(chars) == [kind |-> "star", text |-> "", chars |-> chars]

Terminal(type, pattern) == [type |-> type, pattern |-> pattern]

CharAt(str, index) == SubSeq(str, index + 1, index + 1)

\* the length of the longest run of chars of str starting at index
RECURSIVE Run(_, _, _)
Run(str, index, chars) ==
    IF index < Len(str) /\ CharAt(str, index) \in chars
    THEN 1 + Run(str, index + 1, chars)
    ELSE 0

\* what a sticky pattern matches of str at index exactly: match[0], or undefined for null
matchAt(str, pattern, index) ==
    CASE pattern.kind = "literal" ->
            IF /\ index + Len(pattern.text) <= Len(str)
               /\ SubSeq(str, index + 1, index + Len(pattern.text)) = pattern.text
            THEN Some(pattern.text) ELSE Undefined
      [] pattern.kind = "one" ->
            IF index < Len(str) /\ CharAt(str, index) \in pattern.chars
            THEN Some(CharAt(str, index)) ELSE Undefined
      [] pattern.kind = "plus" ->
            IF Run(str, index, pattern.chars) >= 1
            THEN Some(SubSeq(str, index + 1, index + Run(str, index, pattern.chars)))
            ELSE Undefined
      [] pattern.kind = "star" ->
            Some(SubSeq(str, index + 1, index + Run(str, index, pattern.chars)))

\* str.match(pattern) as it would be for a pattern without the sticky flag: lastIndex
\* is ignored and the first match anywhere in str is returned
matchUnanchored(str, pattern, index) ==
    LET hits == {p \in 0..Len(str) : matchAt(str, pattern, p) # Undefined}
    IN  IF hits = {} THEN Undefined
        ELSE matchAt(str, pattern, CHOOSE p \in hits : \A q \in hits : p <= q)

\* pattern.lastIndex = index; str.match(pattern): match[0], or undefined for null
match(str, pattern, index) == matchAt(str, pattern, index)

\* ruleTerminals as it would be without terminalSet.add(el)
RECURSIVE ruleTerminalsRepeated(_, _, _, _)
ruleTerminalsRepeated(rules, els, terminalSet, created) ==
    IF els = <<>> THEN created
    ELSE LET el == base(Head(els))
         IN  IF ~hasRules(rules, el) /\ ~Has(terminalSet, el)
             THEN ruleTerminalsRepeated(rules, Tail(els), terminalSet,
                                        Append(created, Terminal(el, Literal(el))))
             ELSE ruleTerminalsRepeated(rules, Tail(els), terminalSet, created)

\* the terminals Parser.terminals creates for the elements that are no rule and no terminal
RECURSIVE ruleTerminals(_, _, _, _)
ruleTerminals(rules, els, terminalSet, created) ==
    IF els = <<>> THEN created
    ELSE LET el == base(Head(els))
         IN  IF ~hasRules(rules, el) /\ ~Has(terminalSet, el)
             THEN ruleTerminals(rules, Tail(els), Append(terminalSet, el),
                                Append(created, Terminal(el, Literal(el))))
             ELSE ruleTerminals(rules, Tail(els), terminalSet, created)

\* Extracts the terminals from a ruleset
terminals(rules, declared) ==
    ruleTerminals(rules, ruleElements(rules),
                  [n \in 1..Len(declared) |-> declared[n].type], <<>>) \o declared

(***************************************************************************)
(* The table on file.  JSON has no undefined: JSON.stringify writes null   *)
(* for a hole or an undefined element of an array, and JSON.parse reads it *)
(* back as null.                                                           *)
(***************************************************************************)

\* null where a number or undefined is expected: neither undefined nor a number
Null == <<0, 0>>

\* an Action as JSON.parse reads it back from what JSON.stringify wrote
jsonAction(action) ==
    IF action.type = "shift"
    THEN ShiftAction(action.goto,
                     [n \in 1..Len(action.cameFrom) |->
                         IF action.cameFrom[n] = Undefined THEN Null
                         ELSE action.cameFrom[n]])
    ELSE action

\* JSON.parse(JSON.stringify(actionTable))
stringify(table) ==
    [s \in 1..Len(table) |-> [el \in DOMAIN table[s] |-> jsonAction(table[s][el])]]

(***************************************************************************)
(* Lexer                                                                   *)
(***************************************************************************)

LexTree(type, text, index, line) ==
    [type |-> type, match |-> text, index |-> index, line |-> line]

ParseError(message, line, index) ==
    [kind |-> "ParseError", message |-> message, line |-> line, index |-> index]

TypeError == [kind |-> "TypeError"]

\* the property names every object inherits from Object.prototype
ObjectPrototype ==
    {"constructor", "hasOwnProperty", "isPrototypeOf", "propertyIsEnumerable",
     "toLocaleString", "toString", "valueOf", "__proto__",
     "__defineGetter__", "__defineSetter__", "__lookupGetter__", "__lookupSetter__"}

\* what an inherited property reads as where an Action is expected: no type, no cameFrom
Inherited == [type |-> "undefined"]

\* row[type]: the own property, else the inherited one, else undefined
lookup(row, type) ==
    IF type \in DOMAIN row THEN Some(row[type])
    ELSE IF type \in ObjectPrototype THEN Some(Inherited)
    ELSE Undefined

\* the lastIndex of every pattern after the constructor (line 740)
Fresh(lexer) == [n \in 1..Len(lexer) |-> 0]

\* next as it would be without line 751: the pattern is matched at the lastIndex the
\* call before left behind
setLastIndexSkipped(positions, n, index) == positions

\* terminal.pattern.lastIndex = index (line 751), positions holding the lastIndex of
\* every pattern
setLastIndex(positions, n, index) == [positions EXCEPT ![n] = index]

\* str.match(pattern) for a sticky pattern whose lastIndex is at: match[0] or undefined
\* for null, and the lastIndex match leaves: the end of the match, or 0 after a failure
matchSticky(str, pattern, at) ==
    LET m == IF at > Len(str) THEN Undefined ELSE match(str, pattern, at)
    IN  [match |-> m, lastIndex |-> IF m = Undefined THEN 0 ELSE at + Len(m[1])]

\* the loop over the terminals of Lexer.next, from terminal n on (lines 749-760), on a
\* Lexer whose patterns have the lastIndex positions: the token or the ParseError
\* thrown, and the lastIndex of every pattern afterwards
RECURSIVE nextFrom(_, _, _, _, _, _)
nextFrom(lexer, positions, n, token, index, activeTerminals) ==
    IF n > Len(lexer)
    THEN [token |-> Undefined,
          error |-> Some(ParseError("Lexer failed to recognize symbol",
                                    token.line, token.index + index)),
          lastIndex |-> positions]
    ELSE LET terminal == lexer[n]
             eligible == \/ activeTerminals = Undefined
                         \/ lookup(activeTerminals[1], terminal.type) # Undefined
                         \/ terminal.type = "whitespace"
             at == setLastIndex(positions, n, index)
             m == matchSticky(token.match, terminal.pattern, at[n])
             after == [at EXCEPT ![n] = m.lastIndex]
         IN  IF ~eligible
             THEN nextFrom(lexer, positions, n + 1, token, index, activeTerminals)
             ELSE IF m.match # Undefined
             THEN [token |-> Some(LexTree(terminal.type, m.match[1], token.index + index,
                                          token.line)),
                   error |-> Undefined,
                   lastIndex |-> after]
             ELSE nextFrom(lexer, after, n + 1, token, index, activeTerminals)

\* Extract the next symbol from an unknown token, on a Lexer whose patterns have the
\* lastIndex positions
nextAt(lexer, positions, token, index, activeTerminals) ==
    IF index >= Len(token.match)
    THEN [token |-> Some(LexTree("$", "", token.index + index, token.line)),
          error |-> Undefined,
          lastIndex |-> positions]
    ELSE nextFrom(lexer, positions, 1, token, index, activeTerminals)

\* the loop over the terminals of Lexer.next on a Lexer just constructed: [token], or
\* the ParseError thrown
nextTerminal(lexer, n, token, index, activeTerminals) ==
    LET out == nextFrom(lexer, Fresh(lexer), n, token, index, activeTerminals)
    IN  [token |-> out.token, error |-> out.error]

\* next as it would be without the test for the end of the line
nextPastEnd(lexer, token, index, activeTerminals) ==
    nextTerminal(lexer, 1, token, index, activeTerminals)

\* Extract the next symbol from an unknown token: [token], or the ParseError thrown
next(lexer, token, index, activeTerminals) ==
    IF index >= Len(token.match)
    THEN [token |-> Some(LexTree("$", "", token.index + index, token.line)),
          error |-> Undefined]
    ELSE nextTerminal(lexer, 1, token, index, activeTerminals)

\* input.split(/\r?\n/): the lines, cur being the line collected so far from index on
RECURSIVE splitLines(_, _, _)
splitLines(input, index, cur) ==
    IF index >= Len(input) THEN <<cur>>
    ELSE IF CharAt(input, index) = "\n" THEN <<cur>> \o splitLines(input, index + 1, "")
    ELSE IF /\ CharAt(input, index) = "\r"
            /\ index + 1 < Len(input)
            /\ CharAt(input, index + 1) = "\n"
         THEN <<cur>> \o splitLines(input, index + 2, "")
    ELSE splitLines(input, index + 1, cur \o CharAt(input, index))

\* comment.test(line): the pattern is not sticky here, it is searched for in the line
test(comment, line) == \E k \in 0..Len(line) : matchAt(line, comment, k) # Undefined

\* Array.prototype.filter
RECURSIVE SelectSeqOf(_, _)
SelectSeqOf(lines, comment) ==
    IF lines = <<>> THEN <<>>
    ELSE IF comment = Undefined \/ ~test(comment[1], Head(lines))
         THEN <<Head(lines)>> \o SelectSeqOf(Tail(lines), comment)
         ELSE SelectSeqOf(Tail(lines), comment)

\* Split the input in lines: [tokens], or the TypeError of reading the last of no lines
split(input, comment) ==
    LET lines == SelectSeqOf(splitLines(input, 0, ""), comment)
    IN  IF lines = <<>> THEN [tokens |-> <<>>, error |-> Some(TypeError)]
        ELSE [tokens |-> [n \in 1..Len(lines) |-> LexTree("unknown", lines[n], 0, n - 1)]
                            \o <<LexTree("$", "", Len(lines[Len(lines)]), Len(lines) - 1)>>,
              error |-> Undefined]

\* the characters \S does not match
WhiteSpace == {" ", "\t", "\n", "\r", "\f"}

\* line.match(/\S/): the index of the first character that is no whitespace
RECURSIVE searchNonSpace(_, _)
searchNonSpace(line, index) ==
    IF index >= Len(line) THEN Undefined
    ELSE IF CharAt(line, index) \notin WhiteSpace THEN Some(index)
    ELSE searchNonSpace(line, index + 1)

\* the while loop of splitOffside as it would be if it popped the levels above the
\* column without emitting their dedents
dedentWhileSilent(output, level, c, i) ==
    [output |-> output, level |-> SelectSeq(level, LAMBDA x : x <= c)]

\* while (match.index < level[level.length - 1]): a dedent per level popped
RECURSIVE dedentWhile(_, _, _, _)
dedentWhile(output, level, c, i) ==
    IF level # <<>> /\ c < level[Len(level)]
    THEN dedentWhile(Append(output, LexTree("dedent", "", c, i)),
                     SubSeq(level, 1, Len(level) - 1), c, i)
    ELSE [output |-> output, level |-> level]

\* the end of splitOffside as it would be without the closing dedents
dedentRestNone(output, level, lines) == output

\* while (0 < level[level.length - 1]): the dedents at the end of the input
RECURSIVE dedentRest(_, _, _)
dedentRest(output, level, lines) ==
    IF level # <<>> /\ 0 < level[Len(level)]
    THEN dedentRest(Append(output, LexTree("dedent", "", Len(lines[Len(lines)]),
                                           Len(lines) - 1)),
                    SubSeq(level, 1, Len(level) - 1), lines)
    ELSE output

\* the loop of Lexer.splitOffside over the lines, from line i on (lines 705-727)
RECURSIVE offsideLoop(_, _, _, _)
offsideLoop(lines, i, output, level) ==
    IF i >= Len(lines) THEN [tokens |-> output, level |-> level, error |-> Undefined]
    ELSE LET found == searchNonSpace(At(lines, i), 0)
             unknown == LexTree("unknown", At(lines, i), 0, i)
         IN  IF found = Undefined
             THEN offsideLoop(lines, i + 1, Append(output, unknown), level)
             ELSE IF found[1] > level[Len(level)]
             THEN offsideLoop(lines, i + 1,
                              output \o <<LexTree("indent", "", found[1], i), unknown>>,
                              Append(level, found[1]))
             ELSE LET popped == dedentWhile(output, level, found[1], i)
                  IN  IF popped.level = <<>> \/ found[1] # popped.level[Len(popped.level)]
                      THEN [tokens |-> popped.output, level |-> popped.level,
                            error |-> Some(ParseError("Invalid indentation detected",
                                                      i, found[1]))]
                      ELSE offsideLoop(lines, i + 1, Append(popped.output, unknown),
                                       popped.level)

\* Split the input in lines and apply the offside rule: [tokens], the ParseError
\* thrown, or the TypeError of reading the last of no lines
splitOffside(input, comment) ==
    LET lines == SelectSeqOf(splitLines(input, 0, ""), comment)
        looped == offsideLoop(lines, 0, <<>>, <<0>>)
    IN  IF looped.error # Undefined THEN [tokens |-> <<>>, error |-> looped.error]
        ELSE IF lines = <<>> THEN [tokens |-> <<>>, error |-> Some(TypeError)]
        ELSE [tokens |-> Append(dedentRest(looped.tokens, looped.level, lines),
                                LexTree("$", "", Len(lines[Len(lines)]), Len(lines) - 1)),
              error |-> Undefined]

\* the loop of Lexer.lex over one unknown token (lines 769-778): the output, the
\* ParseError next threw, or loops when a match is empty and index never advances
RECURSIVE lexLine(_, _, _, _, _)
lexLine(lexer, positions, token, index, output) ==
    LET got == nextAt(lexer, positions, token, index, Undefined)
    IN  IF got.error # Undefined
        THEN [tokens |-> output, error |-> got.error, loops |-> FALSE,
              lastIndex |-> got.lastIndex]
        ELSE IF got.token[1].type = "$"
        THEN [tokens |-> output, error |-> Undefined, loops |-> FALSE,
              lastIndex |-> got.lastIndex]
        ELSE IF Len(got.token[1].match) = 0
        THEN [tokens |-> output, error |-> Undefined, loops |-> TRUE,
              lastIndex |-> got.lastIndex]
        ELSE lexLine(lexer, got.lastIndex, token, index + Len(got.token[1].match),
                     Append(output, got.token[1]))

\* the loop of Lexer.lex over the tokens (lines 767-782)
RECURSIVE lexLoop(_, _, _, _)
lexLoop(lexer, positions, tokens, output) ==
    IF tokens = <<>>
    THEN [tokens |-> output, error |-> Undefined, loops |-> FALSE, lastIndex |-> positions]
    ELSE IF Head(tokens).type = "unknown"
         THEN LET line == lexLine(lexer, positions, Head(tokens), 0, output)
              IN  IF line.error # Undefined \/ line.loops THEN line
                  ELSE lexLoop(lexer, line.lastIndex, Tail(tokens), line.tokens)
         ELSE lexLoop(lexer, positions, Tail(tokens), Append(output, Head(tokens)))

\* Extract all symbols from a set of unknown tokens, on a Lexer whose patterns have the
\* lastIndex positions
lexAt(lexer, positions, tokens) == lexLoop(lexer, positions, tokens, <<>>)

\* Extract all symbols from a set of unknown tokens, on a Lexer just constructed
lex(lexer, tokens) == lexAt(lexer, Fresh(lexer), tokens)

(***************************************************************************)
(* The grammars the model constructs Parsers for, and the texts it parses. *)
(***************************************************************************)

\* the longest text drawn from a grammar's alphabet
MaxLen == 4

Rules(key, alternatives) == [key |-> key, rules |-> alternatives]

Digits == {"0", "1", "2", "3", "4", "5", "6", "7", "8", "9"}

\* the terminals of the README example
ArithTerminals ==
    << Terminal("number", PlusOf(Digits)),
       Terminal("add", OneOf({"+", "-"})),
       Terminal("mul", OneOf({"*", "/"})),
       Terminal("whitespace", PlusOf({" ", "\t", "\n", "\r", "\f"})) >>

\* the rules of the README example
ArithRules ==
    << Rules("root", << <<"addExpr">> >>),
       Rules("addExpr", << <<"addExpr", "add", "mulExpr">>, <<"mulExpr">> >>),
       Rules("mulExpr", << <<"mulExpr", "mul", "number">>, <<"number">> >>) >>

Grammar(rules, start, declared, alphabet, texts) ==
    [rules |-> rules, start |-> start, declared |-> declared,
     alphabet |-> alphabet, texts |-> texts]

GrammarNames ==
    {"arith", "listStar", "listPlus", "leftRec", "ambiguous", "exprConflict",
     "reduceReduce", "acceptReduce", "acceptAccept", "gotoConflict", "nullable",
     "nullableRoot", "nullableStart", "optional", "optionalOnly", "wrappedLeftRec",
     "wrappedAmbiguous", "inherited", "chainThenClosure", "closureThenChain", "holes", "noRules", "emptyRule"}

GrammarOf(name) ==
    CASE name = "arith" ->
            Grammar(ArithRules, "root", ArithTerminals, {"3", "+", "*", " "}, {"3 + 2 * 1"})
      [] name = "listStar" ->
            Grammar(<< Rules("list", << <<"[", "item*", "]">> >>),
                       Rules("item", << <<"a">> >>) >>,
                    "list", <<>>, {"[", "a", "]", "\n"}, {"[aaa]"})
      [] name = "listPlus" ->
            Grammar(<< Rules("list", << <<"[", "item+", "]">> >>),
                       Rules("item", << <<"a">> >>) >>,
                    "list", <<>>, {"[", "a", "]"}, {"[aaa]"})
      [] name = "leftRec" ->
            Grammar(<< Rules("A", << <<"A", "x">>, <<"x">> >>) >>,
                    "A", <<>>, {"x"}, {})
      [] name = "ambiguous" ->
            Grammar(<< Rules("S", << <<"S", "S">>, <<"a">> >>) >>,
                    "S", <<>>, {"a", "y"}, {})
      [] name = "exprConflict" ->
            Grammar(<< Rules("root", << <<"E">> >>),
                       Rules("E", << <<"E", "-", "E">>, <<"n">> >>) >>,
                    "root", <<>>, {"n", "-"}, {})
      [] name = "reduceReduce" ->
            Grammar(<< Rules("root", << <<"A", "x">>, <<"B", "x">> >>),
                       Rules("A", << <<"a">> >>),
                       Rules("B", << <<"a">> >>) >>,
                    "root", <<>>, {"a", "x"}, {})
      [] name = "acceptReduce" ->
            Grammar(<< Rules("root", << <<"a">>, <<"B">> >>),
                       Rules("B", << <<"a">> >>) >>,
                    "root", <<>>, {"a"}, {})
      [] name = "acceptAccept" ->
            Grammar(<< Rules("root", << <<"a">>, <<"a", "b?">> >>) >>,
                    "root", <<>>, {"a", "b"}, {})
      [] name = "gotoConflict" ->
            Grammar(<< Rules("root", << <<"k">> >>),
                       Rules("k", << <<"a*", "a+">> >>) >>,
                    "root", <<>>, {"a"}, {})
      [] name = "nullable" ->
            Grammar(<< Rules("root", << <<"[", "k", "]">> >>),
                       Rules("k", << <<"item*">> >>),
                       Rules("item", << <<"a">> >>) >>,
                    "root", <<>>, {"[", "a", "]"}, {})
      [] name = "nullableRoot" ->
            Grammar(<< Rules("root", << <<"k">> >>),
                       Rules("k", << <<"a*">> >>) >>,
                    "root", <<>>, {"a"}, {})
      [] name = "nullableStart" ->
            Grammar(<< Rules("root", << <<"a*">> >>) >>,
                    "root", <<Terminal("whitespace", PlusOf({" ", "\t"}))>>,
                    {"a", " "}, {})
      [] name = "optional" ->
            Grammar(<< Rules("root", << <<"s">> >>),
                       Rules("s", << <<"a", "b?", "c">> >>) >>,
                    "root", <<Terminal("whitespace", PlusOf({" ", "\t"}))>>,
                    {"a", "b", "c", " "}, {})
      [] name = "optionalOnly" ->
            Grammar(<< Rules("root", << <<"[", "k", "]">> >>),
                       Rules("k", << <<"b?">> >>) >>,
                    "root", <<>>, {"[", "b", "]"}, {})
      [] name = "chainThenClosure" ->
            Grammar(<< Rules("root", << <<"k">> >>),
                       Rules("k", << <<"a?", "b">>, <<"a", "k">> >>) >>,
                    "root", <<>>, {"a", "b"}, {})
      [] name = "closureThenChain" ->
            Grammar(<< Rules("root", << <<"k">> >>),
                       Rules("k", << <<"a+", "k">>, <<"b">> >>) >>,
                    "root", <<>>, {"a", "b"}, {})
      [] name = "wrappedLeftRec" ->
            Grammar(<< Rules("root", << <<"A">> >>),
                       Rules("A", << <<"A", "x">>, <<"x">> >>) >>,
                    "root", <<>>, {"x", "\n"}, {})
      [] name = "wrappedAmbiguous" ->
            Grammar(<< Rules("root", << <<"S">> >>),
                       Rules("S", << <<"S", "S">>, <<"a">> >>) >>,
                    "root", <<>>, {"a"}, {})
      [] name = "inherited" ->
            Grammar(<< Rules("root", << <<"a", "constructor">> >>) >>,
                    "root", <<Terminal("constructor", OneOf({"c"}))>>, {"a", "c"}, {})
      [] name = "noRules" ->
            Grammar(<< Rules("root", << <<"k">> >>), Rules("k", <<>>) >>,
                    "root", <<>>, {"a"}, {})
      [] name = "emptyRule" ->
            Grammar(<< Rules("root", << <<"k">> >>), Rules("k", << <<"a">>, <<>> >>) >>,
                    "root", <<>>, {"a"}, {})
      [] name = "holes" ->
            Grammar(<< Rules("root", << <<"a", "B">>, <<"a", "C">> >>),
                       Rules("B", << <<"b", "c">> >>),
                       Rules("C", << <<"d">> >>) >>,
                    "root", <<>>, {"a", "b", "c", "d"}, {})

\* every text of at most n characters of the alphabet
RECURSIVE Texts(_, _)
Texts(alphabet, n) ==
    IF n = 0 THEN {""}
    ELSE Texts(alphabet, n - 1)
           \cup {t \o c : t \in Texts(alphabet, n - 1), c \in alphabet}

InputsOf(name) == Texts(GrammarOf(name).alphabet, MaxLen) \cup GrammarOf(name).texts

\* new Lexer(Parser.terminals(rules, terminals))
LexerOf(name) == terminals(GrammarOf(name).rules, GrammarOf(name).declared)

(***************************************************************************)
(* The state: one Parser, from its construction through one parse call.    *)
(***************************************************************************)
VARIABLES
    grammar,      \* the name of the grammar the Parser is constructed for
    lexer,        \* the terminals of the Lexer handed to parse
    pc,           \* "new", "failed" (the constructor threw), "ready", "parsing", "done"
    actionTable,  \* this.actionTable
    states,       \* the local states of buildTable (kept for the properties)
    error,        \* the Error the constructor threw, if it did
    input,        \* the text handed to Lexer.split
    tokens,       \* the tokens handed to parse
    i,            \* the loop variable i of parse
    index,        \* the column within the current unknown line
    lexToken,     \* the token lexed from the current line and not yet consumed
    symbolStack,
    stateStack,
    readStack,
    result,       \* what parse returned or threw
    taken,        \* the last iteration of the parse loop (kept for the properties)
    lexCall,      \* the last call of lexer.next (kept for the properties)
    lastIndex,    \* terminal.pattern.lastIndex of every terminal of the Lexer
    file,         \* the contents of "dsl-parser_v" + version + ".json", if it exists
    earlier       \* the outcome of the parse call before this one (kept for the properties)

vars == <<grammar, lexer, pc, actionTable, states, error, input, tokens, i, index, lexToken,
          symbolStack, stateStack, readStack, result, taken, lexCall, lastIndex, file,
          earlier>>

parseVars == <<input, tokens, i, index, lexToken, symbolStack, stateStack, readStack,
               result, taken, lexCall, lastIndex, earlier>>

None == [kind |-> "none"]

Init ==
    /\ grammar \in GrammarNames
    /\ lexer = LexerOf(grammar)
    /\ pc = "new"
    /\ actionTable = <<>>
    /\ states = <<>>
    /\ error = Undefined
    /\ input = ""
    /\ tokens = <<>>
    /\ i = 0
    /\ index = 0
    /\ lexToken = Undefined
    /\ symbolStack = <<>>
    /\ stateStack = <<>>
    /\ readStack = <<>>
    /\ result = None
    /\ taken = None
    /\ lexCall = None
    /\ lastIndex = Fresh(lexer)
    /\ file = Undefined
    /\ earlier = None

\* the constructor as it would be without its assertions
assertionSkipped(rules) == Undefined

\* the loop of assertions over the keys of rules (lines 330-333): the message of the
\* first assertion that fails, if one does
RECURSIVE assertion(_)
assertion(rules) ==
    IF rules = <<>> THEN Undefined
    ELSE IF Len(Head(rules).rules) = 0
    THEN Some("Each non-terminal should contain at least one rule")
    ELSE IF \E r \in 1..Len(Head(rules).rules) : Len(Head(rules).rules[r]) = 0
    THEN Some("Each rule should contain at least one element")
    ELSE assertion(Tail(rules))

\* new Parser(rules, start, version?): an assertion fails, whether or not a version is
\* given and whether or not the file exists (lines 330-333)
ConstructAsserts ==
    /\ pc = "new"
    /\ assertion(GrammarOf(grammar).rules) # Undefined
    /\ error' = assertion(GrammarOf(grammar).rules)
    /\ pc' = "failed"
    /\ UNCHANGED <<grammar, lexer, actionTable, states, parseVars, file>>

\* new Parser(rules, start): buildTable returns the table
Construct ==
    /\ pc = "new"
    /\ assertion(GrammarOf(grammar).rules) = Undefined
    /\ \E b \in {buildTable(GrammarOf(grammar).rules, GrammarOf(grammar).start)} :
           /\ b.error = Undefined
           /\ actionTable' = b.table
           /\ states' = b.states
    /\ pc' = "ready"
    /\ UNCHANGED <<grammar, lexer, error, parseVars, file>>

\* new Parser(rules, start): buildTable throws
ConstructThrows ==
    /\ pc = "new"
    /\ assertion(GrammarOf(grammar).rules) = Undefined
    /\ \E b \in {buildTable(GrammarOf(grammar).rules, GrammarOf(grammar).start)} :
           /\ b.error # Undefined
           /\ error' = b.error
           /\ states' = b.states
    /\ pc' = "failed"
    /\ UNCHANGED <<grammar, lexer, actionTable, parseVars, file>>

\* parser.parse(lexer, tokens), up to the first iteration of the loop (lines 348-355)
enterParse(text, given, positions) ==
    /\ input' = text
    /\ lastIndex' = positions
    /\ tokens' = given
    /\ i' = 0
    /\ index' = 0
    /\ lexToken' = Undefined
    /\ symbolStack' = <<>>
    /\ stateStack' = <<0>>
    /\ readStack' = << <<>> >>
    /\ pc' = "parsing"
    /\ UNCHANGED <<grammar, lexer, actionTable, states, error, result, taken, lexCall, file>>

\* parser.parse(lexer, Lexer.split(text))
StartParse ==
    /\ pc = "ready"
    /\ \E text \in InputsOf(grammar) :
          enterParse(text, split(text, Undefined).tokens, lastIndex)
    /\ UNCHANGED earlier

\* parser.parse(lexer, lexer.lex(Lexer.split(text)))
StartParseLexed ==
    /\ pc = "ready"
    /\ \E text \in InputsOf(grammar) :
          \E lexTokens \in {lexAt(lexer, lastIndex, split(text, Undefined).tokens)} :
              /\ lexTokens.error = Undefined
              /\ ~lexTokens.loops
              /\ enterParse(text, lexTokens.tokens, lexTokens.lastIndex)
    /\ UNCHANGED earlier

\* lexer.lex(Lexer.split(text)) throws, parse is not called
LexThrows ==
    /\ pc = "ready"
    /\ \E text \in InputsOf(grammar) :
          \E lexTokens \in {lexAt(lexer, lastIndex, split(text, Undefined).tokens)} :
              /\ lexTokens.error # Undefined
              /\ input' = text
              /\ result' = lexTokens.error[1]
              /\ lastIndex' = lexTokens.lastIndex
    /\ taken' = [kind |-> "lexThrows"]
    /\ pc' = "done"
    /\ UNCHANGED <<grammar, lexer, actionTable, states, error, tokens, i, index, lexToken,
                   symbolStack, stateStack, readStack, lexCall, file, earlier>>

(***************************************************************************)
(* Parser.parse: one action per way an iteration of the loop can go.       *)
(***************************************************************************)

Last(stack) == stack[Len(stack)]

\* lexToken || tokens[i]
readToken ==
    IF lexToken # Undefined THEN lexToken
    ELSE IF i < Len(tokens) THEN Some(At(tokens, i)) ELSE Undefined

\* !lexToken && token.type === "unknown"
mustLex == lexToken = Undefined /\ readToken # Undefined /\ readToken[1].type = "unknown"

\* the call as it would be without the row of the current state
lexedUnrestricted == nextAt(lexer, lastIndex, readToken[1], index, Undefined)

\* lexer.next(token, index, this.actionTable[stateStack[stateStack.length - 1]])
lexed ==
    nextAt(lexer, lastIndex, readToken[1], index, Some(At(actionTable, Last(stateStack))))

lexRecord ==
    [active |-> At(actionTable, Last(stateStack)), line |-> readToken[1].match,
     index |-> index, returned |-> lexed.token, thrown |-> lexed.error]

\* the iteration gets past the lexing with a token in hand
hasToken ==
    /\ pc = "parsing"
    /\ readToken # Undefined
    /\ mustLex => lexed.error = Undefined /\ lexed.token[1].type # "$"

\* the token of this iteration, lexToken and index after the lexing (lines 357-372)
token == IF mustLex THEN lexed.token[1] ELSE readToken[1]

lexTokenNow == IF mustLex THEN lexed.token ELSE lexToken

indexNow == IF mustLex THEN index + Len(token.match) ELSE index

lexCallNow == IF mustLex THEN lexRecord ELSE lexCall

\* the lastIndex of the patterns after the iteration's call of lexer.next, if it made one
lastIndexNow == IF mustLex THEN lexed.lastIndex ELSE lastIndex

\* i = !lexToken ? i + 1 : i
advance == IF lexTokenNow = Undefined THEN i + 1 ELSE i

\* this.actionTable[stateStack[stateStack.length - 1]][token.type]
actionNow == lookup(At(actionTable, Last(stateStack)), token.type)

\* spliceStart as it would be if a reduce always took one entry off the stacks
spliceStartOne(length, n) == IF length = 0 THEN 0 ELSE length - 1

\* the first index array.splice(-n) removes from, n possibly undefined
spliceStart(length, n) ==
    IF n = Undefined THEN 0
    ELSE IF n[1] = 0 \/ n[1] > length THEN 0
    ELSE length - n[1]

\* readEntry as it would be if every tracked rule restarted its count at the shift
readEntryRestarts(cameFrom, top) ==
    [n \in 1..Len(cameFrom) |->
        IF cameFrom[n] # Undefined THEN Some(1) ELSE Undefined]

\* Increase the number of symbols read for each rule (line 407): a hole stays a hole,
\* null is not undefined and readStack[top][null] is, so null gives (undefined || 0) + 1
readEntry(cameFrom, top) ==
    [n \in 1..Len(cameFrom) |->
        IF cameFrom[n] = Undefined THEN Undefined
        ELSE IF cameFrom[n] = Null THEN Some(0 + 1)
        ELSE Some((IF Get(top, cameFrom[n][1]) = Undefined
                   THEN 0 ELSE Get(top, cameFrom[n][1])[1]) + 1)]

\* ParseError.fromTree: the position of the leftmost leaf
RECURSIVE fromTree(_, _)
fromTree(message, tree) ==
    IF "children" \in DOMAIN tree THEN fromTree(message, tree.children[1])
    ELSE ParseError(message, tree.line, tree.index)

\* the line is exhausted: lexer.next returns "$" (lines 363-368)
ParseEndOfLine ==
    /\ pc = "parsing"
    /\ mustLex
    /\ lexed.error = Undefined
    /\ lexed.token[1].type = "$"
    /\ i' = i + 1
    /\ lexToken' = Undefined
    /\ index' = 0
    /\ lexCall' = lexRecord
    /\ lastIndex' = lastIndexNow
    /\ taken' = [kind |-> "endOfLine"]
    /\ UNCHANGED <<grammar, lexer, file, earlier, pc, actionTable, states, error, input, tokens,
                   symbolStack, stateStack, readStack, result>>

\* lexer.next throws (line 361)
ParseLexerThrows ==
    /\ pc = "parsing"
    /\ mustLex
    /\ lexed.error # Undefined
    /\ result' = lexed.error[1]
    /\ lexCall' = lexRecord
    /\ lastIndex' = lastIndexNow
    /\ taken' = [kind |-> "lexerThrows"]
    /\ pc' = "done"
    /\ UNCHANGED <<grammar, lexer, file, earlier, actionTable, states, error, input, tokens, i, index, lexToken,
                   symbolStack, stateStack, readStack>>

\* the skip as it would be without its assignment to i
skipOverStays == i

\* i after the skip over whitespace (line 376)
skipOver == advance

\* Skip over whitespace (lines 375-379)
ParseWhitespace ==
    /\ hasToken
    /\ token.type = "whitespace"
    /\ i' = skipOver
    /\ lexToken' = Undefined
    /\ index' = indexNow
    /\ lexCall' = lexCallNow
    /\ lastIndex' = lastIndexNow
    /\ taken' = [kind |-> "whitespace"]
    /\ UNCHANGED <<grammar, lexer, file, earlier, pc, actionTable, states, error, input, tokens,
                   symbolStack, stateStack, readStack, result>>

\* no action for the token (lines 409-411)
ParseNoAction ==
    /\ hasToken
    /\ token.type # "whitespace"
    /\ actionNow = Undefined
    /\ result' = fromTree("Parser failed to parse symbol", token)
    /\ lexToken' = lexTokenNow
    /\ index' = indexNow
    /\ lexCall' = lexCallNow
    /\ lastIndex' = lastIndexNow
    /\ taken' = [kind |-> "noAction"]
    /\ pc' = "done"
    /\ UNCHANGED <<grammar, lexer, file, earlier, actionTable, states, error, input, tokens, i,
                   symbolStack, stateStack, readStack>>

\* the row has no such own property but Object.prototype has: the value is no Action,
\* no case of the switch applies and action.cameFrom.map throws a TypeError (line 407)
ParseInherited ==
    /\ hasToken
    /\ token.type # "whitespace"
    /\ actionNow = Some(Inherited)
    /\ result' = TypeError
    /\ lexToken' = lexTokenNow
    /\ index' = indexNow
    /\ lexCall' = lexCallNow
    /\ lastIndex' = lastIndexNow
    /\ taken' = [kind |-> "inherited"]
    /\ pc' = "done"
    /\ UNCHANGED <<grammar, lexer, file, earlier, actionTable, states, error, input, tokens, i,
                   symbolStack, stateStack, readStack>>

\* case "shift" (lines 386-390, 407-408)
ParseShift ==
    /\ hasToken
    /\ token.type # "whitespace"
    /\ actionNow # Undefined
    /\ actionNow[1].type = "shift"
    /\ symbolStack' = Append(symbolStack, token)
    /\ i' = advance
    /\ lexToken' = Undefined
    /\ index' = indexNow
    /\ readStack' = Append(readStack, readEntry(actionNow[1].cameFrom, Last(readStack)))
    /\ stateStack' = Append(stateStack, actionNow[1].goto)
    /\ lexCall' = lexCallNow
    /\ lastIndex' = lastIndexNow
    /\ taken' = [kind |-> "shift"]
    /\ UNCHANGED <<grammar, lexer, file, earlier, pc, actionTable, states, error, input, tokens, result>>

\* reduction as it would be with symbolStack.slice in place of symbolStack.splice:
\* the children stay on the symbol stack under their parent
reductionSlices(action) ==
    LET symbolsRead == Get(Last(readStack), action.rule)
        from == spliceStart(Len(symbolStack), symbolsRead)
        stateStackLeft == SubSeq(stateStack, 1, spliceStart(Len(stateStack), symbolsRead))
    IN  [symbolsRead |-> symbolsRead,
         parent |-> [type |-> action.key,
                     children |-> SubSeq(symbolStack, from + 1, Len(symbolStack))],
         symbolStack |-> symbolStack,
         readStack |-> SubSeq(readStack, 1, spliceStart(Len(readStack), symbolsRead)),
         stateStack |-> stateStackLeft,
         action |-> IF stateStackLeft = <<>> THEN Undefined
                    ELSE lookup(At(actionTable, Last(stateStackLeft)), action.key)]

\* reduction as it would be if the children came off the stack one by one, the last
\* symbol first
reductionReversed(action) ==
    LET symbolsRead == Get(Last(readStack), action.rule)
        from == spliceStart(Len(symbolStack), symbolsRead)
        stateStackLeft == SubSeq(stateStack, 1, spliceStart(Len(stateStack), symbolsRead))
    IN  [symbolsRead |-> symbolsRead,
         parent |-> [type |-> action.key,
                     children |-> [n \in 1..(Len(symbolStack) - from)
                                     |-> symbolStack[Len(symbolStack) + 1 - n]]],
         symbolStack |-> SubSeq(symbolStack, 1, from),
         readStack |-> SubSeq(readStack, 1, spliceStart(Len(readStack), symbolsRead)),
         stateStack |-> stateStackLeft,
         action |-> IF stateStackLeft = <<>> THEN Undefined
                    ELSE lookup(At(actionTable, Last(stateStackLeft)), action.key)]

\* what case "reduce" computes (lines 393-399)
reduction(action) ==
    LET symbolsRead == Get(Last(readStack), action.rule)
        from == spliceStart(Len(symbolStack), symbolsRead)
        stateStackLeft == SubSeq(stateStack, 1, spliceStart(Len(stateStack), symbolsRead))
    IN  [symbolsRead |-> symbolsRead,
         parent |-> [type |-> action.key,
                     children |-> SubSeq(symbolStack, from + 1, Len(symbolStack))],
         symbolStack |-> SubSeq(symbolStack, 1, from),
         readStack |-> SubSeq(readStack, 1, spliceStart(Len(readStack), symbolsRead)),
         stateStack |-> stateStackLeft,
         \* this.actionTable[stateStack[stateStack.length - 1]][parent.type]
         action |-> IF stateStackLeft = <<>> THEN Undefined
                    ELSE lookup(At(actionTable, Last(stateStackLeft)), action.key)]

reduceRecord(action, r) ==
    [kind |-> "reduce", key |-> action.key, rule |-> action.rule,
     item |-> At(At(states, Last(stateStack)), action.rule),
     symbolsRead |-> r.symbolsRead, parent |-> r.parent,
     popped |-> Len(symbolStack) - Len(r.symbolStack),
     poppedStates |-> Len(stateStack) - Len(r.stateStack),
     poppedReads |-> Len(readStack) - Len(r.readStack),
     action |-> r.action, lookahead |-> token]

\* case "reduce" (lines 392-400, 407-408)
ParseReduce ==
    /\ hasToken
    /\ token.type # "whitespace"
    /\ actionNow # Undefined
    /\ actionNow[1].type = "reduce"
    /\ \E r \in {reduction(actionNow[1])} :
           /\ r.action # Undefined
           /\ r.action[1].type = "shift"
           /\ symbolStack' = Append(r.symbolStack, r.parent)
           /\ readStack' = Append(r.readStack,
                                  readEntry(r.action[1].cameFrom, Last(r.readStack)))
           /\ stateStack' = Append(r.stateStack, r.action[1].goto)
           /\ taken' = reduceRecord(actionNow[1], r)
    /\ lexToken' = lexTokenNow
    /\ index' = indexNow
    /\ lexCall' = lexCallNow
    /\ lastIndex' = lastIndexNow
    /\ UNCHANGED <<grammar, lexer, file, earlier, pc, actionTable, states, error, input, tokens, i, result>>

\* case "reduce" when the stacks are emptied or the goto is no shift action: reading
\* a property of undefined (line 398) or calling map of undefined (line 407) throws
ParseReduceThrows ==
    /\ hasToken
    /\ token.type # "whitespace"
    /\ actionNow # Undefined
    /\ actionNow[1].type = "reduce"
    /\ \E r \in {reduction(actionNow[1])} :
           /\ ~(r.action # Undefined /\ r.action[1].type = "shift")
           /\ symbolStack' = IF r.stateStack = <<>> THEN r.symbolStack
                             ELSE Append(r.symbolStack, r.parent)
           /\ readStack' = r.readStack
           /\ stateStack' = r.stateStack
           /\ taken' = reduceRecord(actionNow[1], r)
    /\ result' = TypeError
    /\ lexToken' = lexTokenNow
    /\ index' = indexNow
    /\ lexCall' = lexCallNow
    /\ lastIndex' = lastIndexNow
    /\ pc' = "done"
    /\ UNCHANGED <<grammar, lexer, file, earlier, actionTable, states, error, input, tokens, i>>

\* accept as it would be if it returned the top of the stack alone under the start node
acceptedTop(key, stack) ==
    [kind |-> "tree",
     tree |-> [type |-> key,
               children |-> IF stack = <<>> THEN <<>> ELSE << stack[Len(stack)] >>]]

\* return { type: action.key, children: symbolStack } (line 403)
accepted(key, stack) == [kind |-> "tree", tree |-> [type |-> key, children |-> stack]]

\* case "accept" (lines 402-403)
ParseAccept ==
    /\ hasToken
    /\ token.type # "whitespace"
    /\ actionNow # Undefined
    /\ actionNow[1].type = "accept"
    /\ result' = accepted(actionNow[1].key, symbolStack)
    /\ lexToken' = lexTokenNow
    /\ index' = indexNow
    /\ lexCall' = lexCallNow
    /\ lastIndex' = lastIndexNow
    /\ taken' = [kind |-> "accept"]
    /\ pc' = "done"
    /\ UNCHANGED <<grammar, lexer, file, earlier, actionTable, states, error, input, tokens, i,
                   symbolStack, stateStack, readStack>>

Next ==
    \/ ConstructAsserts
    \/ Construct
    \/ ConstructThrows
    \/ StartParse
    \/ StartParseLexed
    \/ LexThrows
    \/ ParseEndOfLine
    \/ ParseLexerThrows
    \/ ParseWhitespace
    \/ ParseNoAction
    \/ ParseInherited
    \/ ParseShift
    \/ ParseReduce
    \/ ParseReduceThrows
    \/ ParseAccept

Spec == Init /\ [][Next]_vars

\* one iteration of the loop of parse (lines 355-412)
ParseStep ==
    \/ ParseEndOfLine
    \/ ParseLexerThrows
    \/ ParseWhitespace
    \/ ParseNoAction
    \/ ParseInherited
    \/ ParseShift
    \/ ParseReduce
    \/ ParseReduceThrows
    \/ ParseAccept

\* the loop of parse has an iteration to run that changes the state: the line is at
\* its end or lexer.next throws, or there is a token, and if it is whitespace the skip
\* moves on in the tokens or in the line
canStep ==
    /\ pc = "parsing"
    /\ \/ mustLex /\ (lexed.error # Undefined \/ lexed.token[1].type = "$")
       \/ hasToken /\ (token.type = "whitespace" => (skipOver # i \/ indexNow # index))

\* the program runs: the loop of parse goes on to its next iteration as long as it
\* has not returned or thrown.  This is WF_vars(ParseStep) with canStep for
\* ENABLED <<ParseStep>>_vars; a step that leaves pc = "parsing" is a ParseStep.
LiveSpec == Init /\ [][Next]_vars /\ ([]<>(~canStep) \/ []<><<pc = "parsing">>_vars)

(***************************************************************************)
(* A second parse call: on the same Parser and Lexer, or on a Parser that  *)
(* the constructor loaded from the file an earlier constructor wrote.      *)
(***************************************************************************)

\* new Parser(rules, start, version), no file yet: the table is built and written
\* (lines 337-342)
ConstructVersion ==
    /\ pc = "new"
    /\ assertion(GrammarOf(grammar).rules) = Undefined
    /\ file = Undefined
    /\ \E b \in {buildTable(GrammarOf(grammar).rules, GrammarOf(grammar).start)} :
           /\ b.error = Undefined
           /\ actionTable' = b.table
           /\ states' = b.states
    /\ file' = Some(stringify(actionTable'))
    /\ pc' = "ready"
    /\ UNCHANGED <<grammar, lexer, error, parseVars>>

\* new Parser(rules, start, version) once more after a parse, the file existing: the
\* table is read from it (lines 335-336)
ConstructLoaded ==
    /\ pc = "done"
    /\ taken.kind # "lexThrows"
    /\ earlier = None
    /\ file # Undefined
    /\ actionTable' = file[1]
    /\ earlier' = [kind |-> "loaded", result |-> result, table |-> actionTable]
    /\ pc' = "loaded"
    /\ UNCHANGED <<grammar, lexer, states, error, input, tokens, i, index, lexToken,
                   symbolStack, stateStack, readStack, result, taken, lexCall, lastIndex,
                   file>>

\* parser.parse(lexer, tokens) with the tokens of the call before: on the same Parser,
\* or on the Parser just loaded; the Lexer is the same
ParseAgain ==
    /\ \/ pc = "done" /\ taken.kind # "lexThrows" /\ earlier = None
       \/ pc = "loaded"
    /\ enterParse(input, tokens, lastIndex)
    /\ earlier' = IF pc = "loaded" THEN earlier
                  ELSE [kind |-> "reused", result |-> result, table |-> actionTable]

\* every Parser is constructed with a version here
ReuseNext ==
    \/ ConstructAsserts
    \/ ConstructVersion
    \/ ConstructThrows
    \/ StartParse
    \/ StartParseLexed
    \/ LexThrows
    \/ ParseEndOfLine
    \/ ParseLexerThrows
    \/ ParseWhitespace
    \/ ParseNoAction
    \/ ParseInherited
    \/ ParseShift
    \/ ParseReduce
    \/ ParseReduceThrows
    \/ ParseAccept
    \/ ConstructLoaded
    \/ ParseAgain

\* a file an earlier program left under the same version
StaleTable == << [a |-> AcceptAction("stale")] >>

\* the grammars a Parser is constructed for with a version
ReuseGrammars ==
    {"arith", "listStar", "nullable", "inherited", "holes", "exprConflict",
     "ambiguous", "noRules", "emptyRule"}

\* as Init; for the rules the constructor refuses the file may be there already
ReuseInit ==
    /\ grammar \in ReuseGrammars
    /\ lexer = LexerOf(grammar)
    /\ pc = "new"
    /\ actionTable = <<>>
    /\ states = <<>>
    /\ error = Undefined
    /\ input = ""
    /\ tokens = <<>>
    /\ i = 0
    /\ index = 0
    /\ lexToken = Undefined
    /\ symbolStack = <<>>
    /\ stateStack = <<>>
    /\ readStack = <<>>
    /\ result = None
    /\ taken = None
    /\ lexCall = None
    /\ lastIndex = Fresh(lexer)
    /\ file \in IF assertion(GrammarOf(grammar).rules) = Undefined
                THEN {Undefined} ELSE {Undefined, Some(StaleTable)}
    /\ earlier = None

ReuseSpec == ReuseInit /\ [][ReuseNext]_vars

(***************************************************************************)
(* The operations of the Lexer on their own: one call of next, lex, split  *)
(* or splitOffside on a Lexer, kept in taken with what it was given and    *)
(* what it gave.                                                           *)
(***************************************************************************)

\* the longest text handed to an operation of the Lexer
MaxText == 4

LexerNames == {"arith", "keywords", "zeroWidth"}

\* the terminals a Lexer is constructed with, and the characters of its texts
LexerNamed(name) ==
    CASE name = "arith" ->
            [terminals |-> ArithTerminals, alphabet |-> {"1", "+", " "}]
      [] name = "keywords" ->
            [terminals |-> << Terminal("if", Literal("if")),
                              Terminal("name", PlusOf({"i", "f"})),
                              Terminal("i", Literal("i")),
                              Terminal("whitespace", PlusOf({" "})) >>,
             alphabet |-> {"i", "f", " "}]
      [] name = "zeroWidth" ->
            [terminals |-> << Terminal("a", Literal("a")),
                              Terminal("opt", StarOf({"b"})),
                              Terminal("c", Literal("c")) >>,
             alphabet |-> {"a", "b", "c"}]

\* the active-terminal maps handed to next: none, or a row with any of the types as keys
ActiveMaps(given) ==
    {Undefined} \cup
    {Some([type \in keys |-> AcceptAction(type)]) :
        keys \in SUBSET {given[n].type : n \in 1..Len(given)}}

\* the texts handed to split and splitOffside, and the comment patterns
SplitTexts ==
    Texts({"a", " ", "#", "\n", "\r"}, MaxText)
        \cup {"a\n  b\n  c\nd", "a\n  b\n c", "a\n b\n  c\nd", "a\n #\n  b\n#\nc",
              "a\n b\n \n  c\nd"}

Comments == {Undefined, Some(Literal("#"))}

LexerInit ==
    /\ grammar \in LexerNames
    /\ lexer = LexerNamed(grammar).terminals
    /\ pc = "lexer"
    /\ actionTable = <<>>
    /\ states = <<>>
    /\ error = Undefined
    /\ input = ""
    /\ tokens = <<>>
    /\ i = 0
    /\ index = 0
    /\ lexToken = Undefined
    /\ symbolStack = <<>>
    /\ stateStack = <<>>
    /\ readStack = <<>>
    /\ result = None
    /\ taken = None
    /\ lexCall = None
    /\ lastIndex = Fresh(lexer)
    /\ file = Undefined
    /\ earlier = None

\* the call is made once; nothing but its record and the lastIndex of the patterns changes
callOnce(record, positions) ==
    /\ taken' = record
    /\ lastIndex' = positions
    /\ pc' = "called"
    /\ UNCHANGED <<grammar, lexer, actionTable, states, error, input, tokens, i, index,
                   lexToken, symbolStack, stateStack, readStack, result, lexCall, file,
                   earlier>>

\* lexer.next(token, index, activeTerminals)
CallNext ==
    /\ pc = "lexer"
    /\ \E text \in Texts(LexerNamed(grammar).alphabet, MaxText),
          at \in {<<0, 0>>, <<3, 2>>},
          activeTerminals \in ActiveMaps(lexer) :
           \E column \in 0..(Len(text) + 1) :
               LET unknown == LexTree("unknown", text, at[1], at[2])
               IN  callOnce([kind |-> "next",
                             token |-> unknown,
                             index |-> column,
                             activeTerminals |-> activeTerminals,
                             out |-> next(lexer, unknown, column, activeTerminals)],
                            nextAt(lexer, lastIndex, unknown, column,
                                   activeTerminals).lastIndex)

\* lexer.lex(Lexer.split(text)), and lex of the two parts of the text cut at a column
CallLex ==
    /\ pc = "lexer"
    /\ \E text \in Texts(LexerNamed(grammar).alphabet, MaxText) :
           \E cut \in 0..Len(text) :
               LET whole == lex(lexer, split(text, Undefined).tokens)
               IN  callOnce([kind |-> "lex",
                             first |-> SubSeq(text, 1, cut),
                             second |-> SubSeq(text, cut + 1, Len(text)),
                             whole |-> whole,
                             left |-> lex(lexer, split(SubSeq(text, 1, cut),
                                                       Undefined).tokens),
                             right |-> lex(lexer, split(SubSeq(text, cut + 1, Len(text)),
                                                        Undefined).tokens)],
                            whole.lastIndex)

\* Lexer.split(text, comment)
CallSplit ==
    /\ pc = "lexer"
    /\ \E text \in SplitTexts, comment \in Comments :
           callOnce([kind |-> "split", input |-> text, comment |-> comment,
                     out |-> split(text, comment)],
                    lastIndex)

\* Lexer.splitOffside(text, comment)
CallSplitOffside ==
    /\ pc = "lexer"
    /\ \E text \in SplitTexts, comment \in Comments :
           callOnce([kind |-> "splitOffside", input |-> text, comment |-> comment,
                     out |-> splitOffside(text, comment)],
                    lastIndex)

LexerNext ==
    \/ CallNext
    \/ CallLex
    \/ CallSplit
    \/ CallSplitOffside

LexerSpec == LexerInit /\ [][LexerNext]_vars

(***************************************************************************)
(* Visitor and the ArithVisitor of the README.  A visit returns <<number>>,*)
(* or <<>> when it throws.                                                 *)
(***************************************************************************)

\* parseFloat of the first n characters of a string of decimal digits
RECURSIVE parseFloat(_, _)
parseFloat(text, n) ==
    IF n = 0 THEN 0
    ELSE 10 * parseFloat(text, n - 1)
           + FindIndex(<<"0", "1", "2", "3", "4", "5", "6", "7", "8", "9">>, CharAt(text, n - 1))

RECURSIVE visit(_)

\* Visit the children in the parse tree and return the result of the last
visitChildren(tree) ==
    IF \E n \in 1..Len(tree.children) : visit(tree.children[n]) = Undefined THEN Undefined
    ELSE visit(tree.children[Len(tree.children)])

\* visit_addExpr under @skipOneChild
visit_addExpr(tree) ==
    IF Len(tree.children) > 1
    THEN LET lhs == visit(tree.children[1])
             rhs == visit(tree.children[3])
         IN  IF lhs = Undefined \/ rhs = Undefined THEN Undefined
             ELSE CASE tree.children[2].match = "+" -> Some(lhs[1] + rhs[1])
                    [] tree.children[2].match = "-" -> Some(lhs[1] - rhs[1])
                    [] OTHER -> Undefined
    ELSE visit(tree.children[1])

\* visit_mulExpr under @skipOneChild; "/" is modelled where the quotient is an integer
visit_mulExpr(tree) ==
    IF Len(tree.children) > 1
    THEN LET lhs == visit(tree.children[1])
             rhs == visit(tree.children[Len(tree.children)])
         IN  IF lhs = Undefined \/ rhs = Undefined THEN Undefined
             ELSE CASE tree.children[2].match = "*" -> Some(lhs[1] * rhs[1])
                    [] tree.children[2].match = "/" /\ rhs[1] # 0 /\ lhs[1] % rhs[1] = 0
                         -> Some(lhs[1] \div rhs[1])
                    [] OTHER -> Undefined
    ELSE visit(tree.children[1])

visit_number(tree) == Some(parseFloat(tree.match, Len(tree.match)))

\* Visit a node in the parse tree
visit(tree) ==
    CASE tree.type = "addExpr" -> visit_addExpr(tree)
      [] tree.type = "mulExpr" -> visit_mulExpr(tree)
      [] tree.type = "number" -> visit_number(tree)
      [] OTHER -> IF "children" \in DOMAIN tree THEN visitChildren(tree) ELSE Undefined

(***************************************************************************)
(* Properties                                                              *)
(***************************************************************************)

rulesNow == GrammarOf(grammar).rules

startNow == GrammarOf(grammar).start

\* every symbol of the grammar, and the end of input
symbolsOf(rules) == DOMAIN firstInit(rules) \cup {"$"}

\* the action an item at 0-based index j of a state calls for
itemAction(item, j, start) ==
    IF item.dot = Len(item.children)
    THEN [type |-> IF item.key = start THEN "accept" ELSE "reduce", rule |-> j]
    ELSE [type |-> "shift", rule |-> 0 - 1]

\* the symbols it calls for it on
itemSymbols(item, start, flw) ==
    IF item.dot = Len(item.children)
    THEN IF item.key = start THEN {"$"}
         ELSE {flw[item.key][n] : n \in 1..Len(flw[item.key])}
    ELSE {baseAtDot(item)[1]}

\* the actions the items of a state call for on el
calledFor(state, el, start, flw) ==
    {itemAction(state[n], n - 1, start) :
        n \in {m \in 1..Len(state) : el \in itemSymbols(state[m], start, flw)}}

\* the row holds the action called for: the reduce by that item, the accept of the
\* start symbol, or the shift to the state goto gives, with its cameFrom
holds(action, called, state, el) ==
    /\ action.type = called.type
    /\ called.type = "reduce" =>
          action.rule = called.rule /\ action.key = At(state, called.rule).key
    /\ called.type = "accept" => action.key = startNow
    /\ called.type = "shift" =>
          /\ action.goto \in 0..(Len(states) - 1)
          /\ At(states, action.goto) = goto(rulesNow, state, el).output
          /\ action.cameFrom = goto(rulesNow, state, el).cameFrom

\* the Error names an item of a state whose items call for two actions on one symbol,
\* and the kinds of the two, or it is the Error goto threw for a state
namesConflict ==
    \E s \in 1..Len(states) :
        LET flw == follow(rulesNow, startNow)
        IN  \/ \E n \in 1..Len(states[s]) :
                 \E el \in itemSymbols(states[s][n], startNow, flw) :
                    \E other \in calledFor(states[s], el, startNow, flw) :
                        /\ other # itemAction(states[s][n], n - 1, startNow)
                        /\ error = Some("Rule " \o states[s][n].key \o " - "
                                        \o Join(states[s][n].children) \o " is part of a "
                                        \o (IF states[s][n].dot = Len(states[s][n].children)
                                            THEN other.type \o "/reduce"
                                            ELSE "shift/" \o other.type)
                                        \o " conflict")
            \/ \E el \in symbolsOf(rulesNow) :
                 /\ goto(rulesNow, states[s], el).error = error
                 /\ \E n \in 1..Len(states[s]) :
                       error = Some("Rule " \o states[s][n].key \o " - "
                                    \o Join(states[s][n].children)
                                    \o " is part of a reduce/reduce conflict")

\* some non-terminal of the grammar has no rules, or some rule has no elements
malformed ==
    \E n \in 1..Len(rulesNow) :
        \/ rulesNow[n].rules = <<>>
        \/ \E r \in 1..Len(rulesNow[n].rules) : rulesNow[n].rules[r] = <<>>

\* C1: a table buildTable returns holds, for every state and symbol, exactly the one
\* action the items of the state call for (none when no item calls for one), so no
\* two items of a state call for different actions on a symbol; and when buildTable
\* throws, the Error names a rule of a conflict and the conflict kind.
C1_OneActionPerPair ==
    /\ pc = "ready" =>
          LET flw == follow(rulesNow, startNow)
          IN  \A s \in 1..Len(states) : \A el \in symbolsOf(rulesNow) :
                 LET want == calledFor(states[s], el, startNow, flw)
                 IN  /\ Cardinality(want) <= 1
                     /\ (el \in DOMAIN actionTable[s]) <=> (want # {})
                     /\ want # {} =>
                           \A called \in want :
                              holds(actionTable[s][el], called, states[s], el)
    /\ pc = "ready" => Len(actionTable) = Len(states)
    /\ (pc = "failed" /\ ~malformed) => namesConflict

\* C1 witness: the constructor threw for a state whose items call for a shift and a
\* reduce on the same symbol
C1_Witness ==
    /\ pc = "failed"
    /\ error = Some("Rule E - E,-,E is part of a shift/reduce conflict")
    /\ \E s \in 1..Len(states) :
          Cardinality(calledFor(states[s], "-", startNow, follow(rulesNow, startNow))) = 2

\* no element of the rule carries a quantifier
unquantified(children) ==
    \A n \in 1..Len(children) : ~canOmit(children[n]) /\ ~canRepeat(children[n])

\* C2: a reduce by a rule A -> alpha without quantified elements reads len(alpha) as
\* the width of the completed item, pops exactly len(alpha) entries from each of the
\* symbol, state and read stacks, and the node it pushes is an A whose children are
\* the len(alpha) popped subtrees, one per element of alpha and of that element's type.
C2_ReducePopsRuleLength ==
    (taken.kind = "reduce" /\ unquantified(taken.item.children)) =>
        /\ taken.item.key = taken.key
        /\ taken.item.dot = Len(taken.item.children)
        /\ taken.symbolsRead = Some(Len(taken.item.children))
        /\ taken.popped = Len(taken.item.children)
        /\ taken.poppedStates = Len(taken.item.children)
        /\ taken.poppedReads = Len(taken.item.children)
        /\ taken.parent.type = taken.key
        /\ Len(taken.parent.children) = Len(taken.item.children)
        /\ \A n \in 1..Len(taken.item.children) :
              taken.parent.children[n].type = taken.item.children[n]
        /\ pc = "parsing" => Last(symbolStack) = taken.parent

\* C2 witness: a reduce by a rule of three unquantified elements popped three symbols
C2_Witness ==
    /\ taken.kind = "reduce"
    /\ unquantified(taken.item.children)
    /\ Len(taken.item.children) = 3
    /\ taken.popped = 3
    /\ pc = "parsing"

\* n copies of a text, one after the other
RECURSIVE Repeat(_, _)
Repeat(text, n) == IF n = 0 THEN "" ELSE text \o Repeat(text, n - 1)

typesOf(children) == [n \in 1..Len(children) |-> children[n].type]

\* n subtrees of type item, each over one "a", the first at column from
itemsFrom(children, n, from) ==
    /\ Len(children) = n
    /\ \A m \in 1..n :
          /\ children[m].type = "item"
          /\ typesOf(children[m].children) = <<"a">>
          /\ children[m].children[1].index = from + m - 1

\* parse was handed Lexer.split(input), not the tokens of lexer.lex
fromSplit == tokens # <<>> /\ tokens[1].type = "unknown"

\* C3: for a rule k -> ... X* ... and n >= 0, parsing n consecutive X's at that place
\* yields a k node holding exactly n X subtrees there, in source order, n = 0 and a
\* rule of omissible elements only (k -> item*) included: "[" a^n "]" parses to
\* list["[", item^n, "]"] under list -> "[" item* "]", and to root["[", k[item^n], "]"]
\* under root -> "[" k "]", k -> item*.
C3_StarYieldsEachX ==
    \A n \in 0..MaxLen :
        (pc = "done" /\ input = "[" \o Repeat("a", n) \o "]") =>
            /\ grammar = "listStar" =>
                  /\ result.kind = "tree"
                  /\ result.tree.type = "list"
                  /\ Len(result.tree.children) = n + 2
                  /\ itemsFrom(SubSeq(result.tree.children, 2, n + 1), n, 1)
            /\ grammar = "nullable" =>
                  /\ result.kind = "tree"
                  /\ typesOf(result.tree.children) = <<"[", "k", "]">>
                  /\ itemsFrom(result.tree.children[2].children, n, 1)

\* C4 as stated: "[]" yields a list node of three children, "[aaa]" one of five
C4_AsStated ==
    (grammar = "listStar" /\ pc = "done") =>
        /\ input = "[]" => result.kind = "tree" /\ Len(result.tree.children) = 3
        /\ input = "[aaa]" => result.kind = "tree" /\ Len(result.tree.children) = 5

\* C4: with list -> "[" item* "]" and item -> "a", start list, parsing "[]" yields a
\* list node of two children, the two brackets with no item between them, and parsing
\* "[aaa]" yields a list node of five children: bracket, three item nodes, bracket.
C4_ListStar ==
    (grammar = "listStar" /\ pc = "done") =>
        /\ input = "[]" =>
              /\ result.kind = "tree"
              /\ result.tree.type = "list"
              /\ typesOf(result.tree.children) = <<"[", "]">>
        /\ input = "[aaa]" =>
              /\ result.kind = "tree"
              /\ result.tree.type = "list"
              /\ typesOf(result.tree.children) = <<"[", "item", "item", "item", "]">>
              /\ itemsFrom(SubSeq(result.tree.children, 2, 4), 3, 1)

\* C4 witness: "[]" was parsed under the list grammar, from the lines of split
C4_Witness ==
    /\ grammar = "listStar"
    /\ pc = "done"
    /\ input = "[]"
    /\ fromSplit
    /\ result.kind = "tree"
    /\ Len(result.tree.children) = 2

\* C5 as stated: "[]" fails with the parser's no-action error at the "]", and "[a]"
\* yields a list node of three children
C5_AsStated ==
    (grammar = "listPlus" /\ pc = "done") =>
        /\ input = "[]" => result = ParseError("Parser failed to parse symbol", 0, 1)
        /\ input = "[a]" => result.kind = "tree" /\ Len(result.tree.children) = 3

\* C5: with list -> "[" item+ "]" and item -> "a", parsing the lines of split("[]")
\* fails at the "]" (line 0, column 1) with the lexer's error, 'Lexer failed to
\* recognize symbol', thrown by next under the active terminals of the state; the
\* parser's no-action error at the "]" is what parsing the tokens of lex gives; and
\* parsing "[a]" yields a list node of three children.
C5_ListPlus ==
    (grammar = "listPlus" /\ pc = "done") =>
        /\ (input = "[]" /\ fromSplit) =>
              /\ result = ParseError("Lexer failed to recognize symbol", 0, 1)
              /\ taken.kind = "lexerThrows"
              /\ "]" \notin DOMAIN lexCall.active
        /\ (input = "[]" /\ ~fromSplit) =>
              /\ result = ParseError("Parser failed to parse symbol", 0, 1)
              /\ taken.kind = "noAction"
        /\ input = "[a]" =>
              /\ result.kind = "tree"
              /\ result.tree.type = "list"
              /\ typesOf(result.tree.children) = <<"[", "item", "]">>
              /\ itemsFrom(SubSeq(result.tree.children, 2, 2), 1, 1)

\* C5 witness: parsing the lines of split("[]") ended in the lexer's error
C5_Witness ==
    /\ grammar = "listPlus"
    /\ pc = "done"
    /\ input = "[]"
    /\ fromSplit
    /\ taken.kind = "lexerThrows"
    /\ result.kind = "ParseError"

\* the texts of the leaves of a tree, left to right
RECURSIVE leavesOf(_)
leavesOf(tree) ==
    IF "children" \in DOMAIN tree
    THEN Flatten([n \in 1..Len(tree.children) |-> leavesOf(tree.children[n])])
    ELSE <<tree.match>>

\* how many nodes of the type are nested along the leftmost path of a tree
RECURSIVE nestedLeft(_, _)
nestedLeft(tree, type) ==
    IF "children" \in DOMAIN tree /\ tree.children # <<>>
    THEN (IF tree.type = type THEN 1 ELSE 0) + nestedLeft(tree.children[1], type)
    ELSE 0

\* C6: with A -> A "x" | "x" and start symbol A, parsing "xxx" succeeds and yields A
\* nodes nested three levels deep whose leftmost leaf is "x".
C6_LeftRecursion ==
    (grammar = "leftRec" /\ pc = "done" /\ input = "xxx") =>
        /\ result.kind = "tree"
        /\ result.tree.type = "A"
        /\ nestedLeft(result.tree, "A") = 3
        /\ leavesOf(result.tree) = <<"x", "x", "x">>

\* C7: constructing a Parser for S -> S S | "a" with start symbol S throws a conflict
\* error whose message names the rule S -> S S.
C7_AmbiguousThrows ==
    (grammar = "ambiguous" /\ pc # "new") =>
        /\ pc = "failed"
        /\ \E kind \in {"shift/reduce", "reduce/reduce", "accept/reduce", "shift/accept"} :
              error = Some("Rule S - S,S is part of a " \o kind \o " conflict")

\* C8: for the arithmetic grammar of the README, with its whitespace terminal, parsing
\* "3 + 2 * 1" returns a root node whose leftmost and rightmost leaves carry "3" and
\* "1"; the product 2 * 1 is one subtree, the right operand of the sum, so the
\* multiplication binds tighter than the addition; and the README visitor gives 5.
C8_Arithmetic ==
    (grammar = "arith" /\ pc = "done" /\ input = "3 + 2 * 1") =>
        /\ result.kind = "tree"
        /\ result.tree.type = "root"
        /\ leavesOf(result.tree) = <<"3", "+", "2", "*", "1">>
        /\ typesOf(result.tree.children) = <<"addExpr">>
        /\ LET sum == result.tree.children[1]
           IN  /\ typesOf(sum.children) = <<"addExpr", "add", "mulExpr">>
               /\ leavesOf(sum.children[1]) = <<"3">>
               /\ sum.children[2].match = "+"
               /\ typesOf(sum.children[3].children) = <<"mulExpr", "mul", "number">>
               /\ leavesOf(sum.children[3]) = <<"2", "*", "1">>
        /\ visit(result.tree) = Some(5)

\* C8 witness: the README call, parse(lexer, Lexer.split("3 + 2 * 1")), returned a tree
C8_Witness ==
    /\ grammar = "arith"
    /\ pc = "done"
    /\ input = "3 + 2 * 1"
    /\ fromSplit
    /\ result.kind = "tree"
    /\ taken.kind = "accept"

\* C9: at the start of every iteration of the loop of parse, symbolStack holds one
\* entry less than stateStack, whatever the grammar and the tokens.
C9_StacksInStep ==
    pc = "parsing" => Len(symbolStack) = Len(stateStack) - 1

\* C9 witness: an iteration starts after a reduce that took three symbols off a
\* stack of more than three
C9_Witness ==
    /\ pc = "parsing"
    /\ taken.kind = "reduce"
    /\ taken.popped = 3
    /\ Len(symbolStack) >= 2

\* C10: a call of Lexer.next with an active-terminal map and index inside the line
\* returns only a token whose type is a key of the map or is whitespace.
C10_ActiveOnly ==
    (/\ lexCall # None
     /\ lexCall.index < Len(lexCall.line)
     /\ lexCall.returned # Undefined) =>
        lexCall.returned[1].type \in DOMAIN lexCall.active \cup {"whitespace"}

\* the terminals next is allowed to try: all of them without a map, else those whose
\* type is a key of the map, and whitespace
eligible(terminal, activeTerminals) ==
    \/ activeTerminals = Undefined
    \/ terminal.type \in DOMAIN activeTerminals[1]
    \/ terminal.type = "whitespace"

\* the places in the declaration order of the eligible terminals that match at index
matching(terminalList, text, column, activeTerminals) ==
    {n \in 1..Len(terminalList) :
        /\ eligible(terminalList[n], activeTerminals)
        /\ match(text, terminalList[n].pattern, column) # Undefined}

Least(numbers) == CHOOSE n \in numbers : \A m \in numbers : n <= m

\* C11: next returns the token of the earliest-declared eligible terminal whose pattern
\* matches at index, the matched text being the text of the line from index on; it
\* returns a "$" token when index is at or past the end of the line; and it throws a
\* ParseError with the line and the column when input remains and no eligible
\* terminal matches.
C11_NextFirstMatch ==
    (pc = "called" /\ taken.kind = "next") =>
        LET text == taken.token.match
            column == taken.token.index + taken.index
            found == matching(lexer, text, taken.index, taken.activeTerminals)
        IN  IF taken.index >= Len(text)
            THEN /\ taken.out.error = Undefined
                 /\ taken.out.token = Some(LexTree("$", "", column, taken.token.line))
            ELSE IF found = {}
            THEN /\ taken.out.token = Undefined
                 /\ taken.out.error =
                       Some(ParseError("Lexer failed to recognize symbol",
                                       taken.token.line, column))
            ELSE /\ taken.out.error = Undefined
                 /\ taken.out.token # Undefined
                 /\ taken.out.token[1].type = lexer[Least(found)].type
                 /\ taken.out.token[1].match =
                       match(text, lexer[Least(found)].pattern, taken.index)[1]
                 /\ taken.out.token[1].match =
                       SubSeq(text, taken.index + 1,
                              taken.index + Len(taken.out.token[1].match))
                 /\ taken.out.token[1].index = column
                 /\ taken.out.token[1].line = taken.token.line

\* C11 witness: under a map, two eligible terminals match at an index inside the line
\* and next returned the token of the one declared first
C11_Witness ==
    /\ pc = "called"
    /\ taken.kind = "next"
    /\ grammar = "keywords"
    /\ taken.activeTerminals # Undefined
    /\ taken.index > 0
    /\ Cardinality(matching(lexer, taken.token.match, taken.index,
                            taken.activeTerminals)) >= 2
    /\ taken.out.token # Undefined
    /\ taken.out.token[1].type = "if"

\* C12: when the first terminal that matches at a position lex has reached matches
\* the empty string, lex fails with the ParseError 'Lexer failed to recognize symbol'
\* at that position: it neither emits the empty token nor goes on at the same index
\* (loops stands for a lex that goes on at the same index for ever).
C12_ZeroWidthFails ==
    (pc = "called" /\ taken.kind = "lex") =>
        /\ ~taken.whole.loops
        /\ \A n \in 1..Len(taken.whole.tokens) :
              taken.whole.tokens[n].type # "$" => taken.whole.tokens[n].match # ""

\* a match of some terminal that starts before the boundary cut of text and ends after it
straddles(terminalList, text, cut) ==
    \E n \in 1..Len(terminalList), p \in 0..(cut - 1) :
        LET m == match(text, terminalList[n].pattern, p)
        IN  m # Undefined /\ p + Len(m[1]) > cut

\* the tokens with their columns moved right by a number of characters
shifted(output, by) ==
    [n \in 1..Len(output) |-> [output[n] EXCEPT !.index = @ + by]]

\* lex returned: it did not throw and it did not run for ever
returned(out) == out.error = Undefined /\ ~out.loops

\* C13 as stated: when no terminal match straddles the boundary between s1 and s2 and
\* both lex, the token sequence of s1 s2 is the token sequence of s1 followed by the
\* token sequence of s2.
C13_AsStated ==
    (/\ pc = "called"
     /\ taken.kind = "lex"
     /\ ~straddles(lexer, taken.first \o taken.second, Len(taken.first))
     /\ returned(taken.left)
     /\ returned(taken.right)) =>
        /\ returned(taken.whole)
        /\ taken.whole.tokens = taken.left.tokens \o taken.right.tokens

\* C13: when no terminal match straddles the boundary between the one-line texts s1 and
\* s2, lex of s1 s2 returns exactly when lex of s1 and lex of s2 both return, and then
\* its tokens are those of s1 without the closing "$" token of s1, followed by those of
\* s2 with their columns moved right by the length of s1.
C13_LexConcat ==
    (/\ pc = "called"
     /\ taken.kind = "lex"
     /\ ~straddles(lexer, taken.first \o taken.second, Len(taken.first))) =>
        /\ returned(taken.whole) <=> (returned(taken.left) /\ returned(taken.right))
        /\ returned(taken.whole) =>
              /\ taken.left.tokens # <<>>
              /\ taken.left.tokens[Len(taken.left.tokens)].type = "$"
              /\ taken.whole.tokens =
                    SubSeq(taken.left.tokens, 1, Len(taken.left.tokens) - 1)
                        \o shifted(taken.right.tokens, Len(taken.first))

\* C13 witness: both parts hold a token, a match would straddle another boundary of the
\* same text, and lex of the whole returned the tokens of both parts
C13_Witness ==
    /\ pc = "called"
    /\ taken.kind = "lex"
    /\ grammar = "keywords"
    /\ taken.first = "if"
    /\ taken.second = " i"
    /\ ~straddles(lexer, taken.first \o taken.second, Len(taken.first))
    /\ straddles(lexer, taken.first \o taken.second, 1)
    /\ returned(taken.whole)
    /\ Len(taken.whole.tokens) = 4
    /\ taken.whole.tokens[3].index = 3

\* the places in the input, counted from 1, of the lines the comment pattern leaves
keptPlaces(text, comment) ==
    LET all == splitLines(text, 0, "")
    IN  {n \in 1..Len(all) : comment = Undefined \/ ~test(comment[1], all[n])}

\* the k-th least of a set of numbers
Nth(numbers, k) ==
    CHOOSE n \in numbers : Cardinality({m \in numbers : m < n}) = k - 1

\* C14: for every input and every optional comment pattern split returns one "unknown"
\* token per line that does not match the comment pattern, in the order of the input,
\* each with the text of its line as match[0], followed by exactly one "$" token, which
\* is the last of the sequence.
C14_SplitLines ==
    (pc = "called" /\ taken.kind = "split") =>
        LET all == splitLines(taken.input, 0, "")
            kept == keptPlaces(taken.input, taken.comment)
            out == taken.out
        IN  /\ out.error = Undefined
            /\ Len(out.tokens) = Cardinality(kept) + 1
            /\ \A k \in 1..Cardinality(kept) :
                  /\ out.tokens[k].type = "unknown"
                  /\ out.tokens[k].match = all[Nth(kept, k)]
            /\ out.tokens[Len(out.tokens)].type = "$"

isUnknown(tree) == tree.type = "unknown"

\* C15: every token split and splitOffside produce for a line carries as line the
\* 0-based number of that line in the input text, for every input and every comment
\* pattern.
C15_LineOfInput ==
    (/\ pc = "called"
     /\ taken.kind \in {"split", "splitOffside"}
     /\ taken.out.error = Undefined) =>
        LET kept == keptPlaces(taken.input, taken.comment)
            unknowns == SelectSeq(taken.out.tokens, isUnknown)
        IN  /\ Len(unknowns) = Cardinality(kept)
            /\ \A k \in 1..Len(unknowns) : unknowns[k].line = Nth(kept, k) - 1

\* the levels of an indentation stack above column c
above(level, c) == {n \in 1..Len(level) : level[n] > c}

\* the type and the text of count tokens alike
Times(count, type) == [n \in 1..count |-> <<type, "">>]

\* the types and texts the offside rule gives for the lines from place n on, the
\* indentation stack being level: an indent and a push for a line further right than
\* the top, a dedent per level popped for a line further left, then the line itself;
\* after the last line a dedent per level that is not 0, then "$"
RECURSIVE offside(_, _, _)
offside(lines, n, level) ==
    IF n > Len(lines)
    THEN Times(Cardinality(above(level, 0)), "dedent") \o << <<"$", "">> >>
    ELSE LET c == searchNonSpace(lines[n], 0)
             line == << <<"unknown", lines[n]>> >>
         IN  IF c = Undefined THEN line \o offside(lines, n + 1, level)
             ELSE IF c[1] > level[Len(level)]
             THEN << <<"indent", "">> >> \o line \o offside(lines, n + 1, Append(level, c[1]))
             ELSE Times(Cardinality(above(level, c[1])), "dedent") \o line
                      \o offside(lines, n + 1,
                                 SubSeq(level, 1, Len(level) - Cardinality(above(level, c[1]))))

\* C16: whenever splitOffside returns, its tokens are those of the offside rule with an
\* indentation stack that starts as [0]: per line that is not blank one indent (and a
\* push) when its column is above the top, else one dedent per level popped while
\* the column is below the top, then the "unknown" token of the line; at the end one
\* dedent per level left that is not 0, and "$". For "a\n  b\n  c\nd" these are
\* unknown(a), indent, unknown(  b), unknown(  c), dedent, unknown(d), $.
C16_OffsideRule ==
    (pc = "called" /\ taken.kind = "splitOffside" /\ taken.out.error = Undefined) =>
        LET lines == SelectSeqOf(splitLines(taken.input, 0, ""), taken.comment)
            got == [n \in 1..Len(taken.out.tokens) |->
                       <<taken.out.tokens[n].type, taken.out.tokens[n].match>>]
        IN  /\ got = offside(lines, 1, <<0>>)
            /\ (taken.input = "a\n  b\n  c\nd" /\ taken.comment = Undefined) =>
                  got = << <<"unknown", "a">>, <<"indent", "">>, <<"unknown", "  b">>,
                           <<"unknown", "  c">>, <<"dedent", "">>, <<"unknown", "d">>,
                           <<"$", "">> >>

\* C16 witness: splitOffside returned for the text of the example, with an indent before
\* the second line and a dedent before the fourth
C16_Witness ==
    /\ pc = "called"
    /\ taken.kind = "splitOffside"
    /\ taken.input = "a\n  b\n  c\nd"
    /\ taken.comment = Undefined
    /\ taken.out.error = Undefined
    /\ Len(taken.out.tokens) = 7
    /\ taken.out.tokens[2].type = "indent"
    /\ taken.out.tokens[5].type = "dedent"

\* the indentation stack before the line at place n, no line before it being refused
RECURSIVE levelBefore(_, _)
levelBefore(lines, n) ==
    IF n = 1 THEN <<0>>
    ELSE LET level == levelBefore(lines, n - 1)
             c == searchNonSpace(lines[n - 1], 0)
         IN  IF c = Undefined THEN level
             ELSE IF c[1] > level[Len(level)] THEN Append(level, c[1])
             ELSE SubSeq(level, 1, Len(level) - Cardinality(above(level, c[1])))

\* the places of the lines that are not blank and whose column is neither above the top
\* of the stack nor one of its levels
refused(lines) ==
    {n \in 1..Len(lines) :
        LET c == searchNonSpace(lines[n], 0)
            level == levelBefore(lines, n)
        IN  /\ c # Undefined
            /\ c[1] <= level[Len(level)]
            /\ \A k \in 1..Len(level) : level[k] # c[1]}

\* C17: splitOffside throws the ParseError 'Invalid indentation detected', with the
\* index of the line and its column, exactly when a line that is not blank has a
\* column that is not above the top of the stack and is none of its levels; in every
\* other case it does not throw.
C17_IndentError ==
    (pc = "called" /\ taken.kind = "splitOffside") =>
        LET lines == SelectSeqOf(splitLines(taken.input, 0, ""), taken.comment)
            place == IF refused(lines) = {} THEN 0 ELSE Least(refused(lines))
        IN  IF place = 0 THEN taken.out.error = Undefined
            ELSE taken.out.error =
                     Some(ParseError("Invalid indentation detected", place - 1,
                                     searchNonSpace(lines[place], 0)[1]))

\* the text holds whitespace and line ends only
blank(text) == \A k \in 0..(Len(text) - 1) : CharAt(text, k) \in WhiteSpace

\* parse read the tokens up to "$" (the lexer did not throw) and nothing but whitespace
shiftedNothing ==
    /\ pc = "done"
    /\ blank(input)
    /\ taken.kind \notin {"lexThrows", "lexerThrows"}

\* the items of the initial state that are at their end, the elements that can be
\* omitted being skipped: the grammar derives the empty input
emptyItems ==
    LET initial == closure(rulesNow, DottedRule(startNow, <<startNow>>, 0))
    IN  {n \in 1..Len(initial) : initial[n].dot = Len(initial[n].children)}

\* C18 as stated: for every accepted grammar, parse of an input that reaches "$" with
\* nothing but whitespace shifted fails with the ParseError 'Parser failed to parse
\* symbol' and never returns a tree.
C18_AsStated ==
    shiftedNothing =>
        /\ result.kind = "ParseError"
        /\ result.message = "Parser failed to parse symbol"

\* the start symbol has a rule all of whose elements can be omitted
startOmitted ==
    \E n \in 1..Len(rulesNow) :
        /\ rulesNow[n].key = startNow
        /\ \E r \in 1..Len(rulesNow[n].rules) :
              \A k \in 1..Len(rulesNow[n].rules[r]) : canOmit(rulesNow[n].rules[r][k])

\* C18: parse of an input that reaches "$" with nothing but whitespace shifted fails
\* with the ParseError 'Parser failed to parse symbol' at the position of "$" when no
\* item of the initial state is at its end once the elements that can be omitted are
\* skipped; when the start symbol has a rule of such elements only, it returns the
\* start node without children.
C18_BlankInput ==
    shiftedNothing =>
        /\ emptyItems = {} =>
              result = ParseError("Parser failed to parse symbol",
                                  tokens[Len(tokens)].line, tokens[Len(tokens)].index)
        /\ startOmitted =>
              /\ result.kind = "tree"
              /\ result.tree = [type |-> startNow, children |-> <<>>]

\* C18 witness: a line of whitespace was skipped and parse failed at "$"; the grammar
\* has elements that can be omitted, none of them first
C18_Witness ==
    /\ shiftedNothing
    /\ grammar = "optional"
    /\ input = "  "
    /\ emptyItems = {}
    /\ result = ParseError("Parser failed to parse symbol", 0, 2)

\* C19: a Parser whose table the constructor loaded from the file an earlier
\* construction with the same rules, start and version wrote behaves as the Parser
\* that built the table: for the same tokens both return the same tree or both fail
\* with the same error, the cameFrom entries that are undefined or holes included.
C19_LoadedAsBuilt ==
    (pc = "done" /\ earlier.kind = "loaded") => result = earlier.result

\* C20: parse never changes the action table, and what it changes of the Lexer, the
\* lastIndex of its patterns, has no effect on a later call: after a parse call that
\* returned or threw, a parse call on the same Parser and Lexer with the same tokens
\* has the outcome of the first, which was made on a Parser just constructed.
C20_ParseLeavesNoTrace ==
    (pc = "done" /\ earlier.kind = "reused") =>
        /\ result = earlier.result
        /\ actionTable = earlier.table

\* C20 witness: the second call on the same Parser and Lexer returned the tree of the
\* README example, the lexer's patterns having been left with a lastIndex by the first
C20_Witness ==
    /\ pc = "done"
    /\ earlier.kind = "reused"
    /\ grammar = "arith"
    /\ input = "3 + 2 * 1"
    /\ fromSplit
    /\ lastIndex # Fresh(lexer)
    /\ result.kind = "tree"
    /\ earlier.result.kind = "tree"

\* C20 as stated: no step of parse modifies the action table or any other state that
\* outlives the call, the lastIndex of the Lexer's patterns included, and a following
\* call with the same tokens has the outcome of the first.
C20_AsStated ==
    /\ [](pc = "done" /\ earlier.kind = "reused" => result = earlier.result)
    /\ [][pc = "parsing" => (actionTable' = actionTable /\ lastIndex' = lastIndex)]_vars

\* C21: constructing a Parser from rules in which a non-terminal has no rules, or a
\* rule has no elements, fails with the assertion's error before a table is built,
\* loaded or written to the file, also when the file exists.
C21_AssertsFirst ==
    [][(pc = "new" /\ malformed) =>
          /\ pc' = "failed"
          /\ error' \in {Some("Each non-terminal should contain at least one rule"),
                          Some("Each rule should contain at least one element")}
          /\ actionTable' = <<>>
          /\ states' = <<>>
          /\ file' = file]_vars

\* C21 witness: the constructor failed on a rule without elements, the file being there
C21_Witness ==
    /\ pc = "failed"
    /\ grammar = "emptyRule"
    /\ file = Some(StaleTable)
    /\ error = Some("Each rule should contain at least one element")
    /\ actionTable = <<>>

\* every rule of the start symbol is one element without a quantifier
singleStart ==
    \A n \in 1..Len(rulesNow) :
        rulesNow[n].key = startNow =>
            \A r \in 1..Len(rulesNow[n].rules) :
                /\ Len(rulesNow[n].rules[r]) = 1
                /\ ~canOmit(rulesNow[n].rules[r][1])
                /\ ~canRepeat(rulesNow[n].rules[r][1])

typesUnder(tree, k) == typesOf(tree.children[k].children)

\* C23: for a rule containing X?, parse accepts input with no X and with one X at that
\* place and rejects two X's in a row; for a rule containing X+, parse rejects no X and
\* accepts n >= 1 of them; the node reduced holds exactly the symbols matched, an
\* optional element left out giving no child. Checked for s -> "a" "b?" "c", for
\* k -> "b?" between brackets and for list -> "[" item+ "]".
C23_OptionalAndPlus ==
    pc = "done" =>
        /\ grammar = "optional" =>
              /\ input = "ac" =>
                    /\ result.kind = "tree"
                    /\ typesOf(result.tree.children) = <<"s">>
                    /\ typesUnder(result.tree, 1) = <<"a", "c">>
              /\ input = "abc" =>
                    /\ result.kind = "tree"
                    /\ typesOf(result.tree.children) = <<"s">>
                    /\ typesUnder(result.tree, 1) = <<"a", "b", "c">>
              /\ input = "abbc" => result.kind # "tree"
        /\ grammar = "optionalOnly" =>
              /\ input = "[]" =>
                    /\ result.kind = "tree"
                    /\ typesOf(result.tree.children) = <<"[", "k", "]">>
                    /\ typesUnder(result.tree, 2) = <<>>
              /\ input = "[b]" =>
                    /\ result.kind = "tree"
                    /\ typesOf(result.tree.children) = <<"[", "k", "]">>
                    /\ typesUnder(result.tree, 2) = <<"b">>
              /\ input = "[bb]" => result.kind # "tree"
        /\ grammar = "listPlus" =>
              /\ input = "[]" => result.kind # "tree"
              /\ \A n \in 1..MaxLen :
                    input = "[" \o Repeat("a", n) \o "]" =>
                        /\ result.kind = "tree"
                        /\ Len(result.tree.children) = n + 2
                        /\ itemsFrom(SubSeq(result.tree.children, 2, n + 1), n, 1)

declaredNow == GrammarOf(grammar).declared

\* the terminals of the lexer that come before the declared ones
promotedNow == SubSeq(lexer, 1, Len(lexer) - Len(declaredNow))

\* an element without its quantifier, if it has one
stripped(el) ==
    IF el # "" /\ SubSeq(el, Len(el), Len(el)) \in {"+", "*", "?"}
    THEN SubSeq(el, 1, Len(el) - 1)
    ELSE el

\* the base names of the rule elements that are no key of the RuleSet and no type of a
\* declared terminal
undeclared ==
    {stripped(ruleElements(rulesNow)[n]) : n \in 1..Len(ruleElements(rulesNow))}
        \ ({rulesNow[n].key : n \in 1..Len(rulesNow)}
              \cup {declaredNow[n].type : n \in 1..Len(declaredNow)})

\* C24: Parser.terminals returns, for every rule element whose base name is neither a
\* key of the RuleSet nor the type of a declared terminal, exactly one literal terminal
\* named by that base name (the quantifier stripped), and after these every declared
\* terminal unchanged; no type occurs twice among the promoted ones and none of them
\* is anything else.
C24_Terminals ==
    /\ Len(lexer) >= Len(declaredNow)
    /\ SubSeq(lexer, Len(lexer) - Len(declaredNow) + 1, Len(lexer)) = declaredNow
    /\ \A name \in undeclared :
          \E n \in 1..Len(promotedNow) :
              /\ promotedNow[n] = Terminal(name, Literal(name))
              /\ \A k \in 1..Len(promotedNow) : promotedNow[k].type = name => k = n
    /\ \A n \in 1..Len(promotedNow) : promotedNow[n].type \in undeclared

\* C24 witness: the optional grammar, whose elements a, b? and c are promoted to the
\* terminals a, b and c before the declared whitespace, handed to a Parser
C24_Witness ==
    /\ grammar = "optional"
    /\ pc = "ready"
    /\ typesOf(lexer) = <<"a", "b", "c", "whitespace">>
    /\ lexer[2] = Terminal("b", Literal("b"))

\* C25: in every reduce step of parse the action table has, after the popping, an
\* entry for the state then on top and the non-terminal reduced, and that entry is a
\* shift; the step pushes the goto state of that entry and leaves the lookahead where
\* it is: the token of the next iteration is the token of this one.
C25_ReduceGoto ==
    taken.kind = "reduce" =>
        /\ taken.action # Undefined
        /\ taken.action[1].type = "shift"
        /\ pc = "parsing"
        /\ Last(stateStack) = taken.action[1].goto
        /\ hasToken
        /\ token = taken.lookahead

\* the members of a Set
members(set) == {set[n] : n \in 1..Len(set)}

\* no member twice
isSet(set) == \A n, k \in 1..Len(set) : set[n] = set[k] => n = k

keysNow == {rulesNow[n].key : n \in 1..Len(rulesNow)}

\* the quantifier of an element, "" if it has none
quantifier(el) == IF el = "" THEN "" ELSE SubSeq(el, Len(stripped(el)) + 1, Len(el))

\* every element from place from to place to of a rule can be left out
omissible(rule, from, to) == \A n \in from..to : quantifier(rule[n]) \in {"*", "?"}

\* what the equations for FOLLOW put into the set of the non-terminal x, given the
\* sets flw: '$' for the start; for each occurrence e_i of x in a rule of k, FIRST(x)
\* if e_i is repeatable, FIRST(base(e_j)) for each later e_j with nothing but
\* omissible elements between e_i and e_j, and flw[k] if every later element is
\* omissible
demanded(flw, fst, x) ==
    (IF x = startNow THEN {"$"} ELSE {})
      \cup UNION {
             UNION {
               UNION {
                 IF stripped(rulesNow[k].rules[r][n]) # x THEN {}
                 ELSE LET rule == rulesNow[k].rules[r]
                      IN  (IF quantifier(rule[n]) \in {"*", "+"}
                           THEN members(fst[x]) ELSE {})
                            \cup UNION {IF omissible(rule, n + 1, j - 1)
                                        THEN members(fst[stripped(rule[j])]) ELSE {}
                                           : j \in (n + 1)..Len(rule)}
                            \cup (IF omissible(rule, n + 1, Len(rule))
                                  THEN flw[rulesNow[k].key] ELSE {})
                 : n \in 1..Len(rulesNow[k].rules[r])}
               : r \in 1..Len(rulesNow[k].rules)}
             : k \in 1..Len(rulesNow)}

\* the least sets closed under the equations, from the empty sets upwards
RECURSIVE leastFrom(_, _)
leastFrom(flw, fst) ==
    LET more == [x \in keysNow |-> demanded(flw, fst, x)]
    IN  IF more = flw THEN flw ELSE leastFrom(more, fst)

leastFollow == leastFrom([x \in keysNow |-> {}], first(rulesNow))

\* the constructor got as far as buildTable, which calls follow (line 264)
followCalled == pc \in {"ready", "failed"} /\ ~malformed

\* C26: Parser.follow returns the least fixpoint of the equations over FIRST as
\* Parser.first computes it: a set for every key, holding '$' for the start and, for
\* each occurrence of a non-terminal in a rule of k, its own FIRST if the occurrence is
\* repeatable, the FIRST of each following element up to and including the first that
\* cannot be left out, and follow[k] if every following element can be left out; and
\* nothing else.
C26_FollowLeastFixpoint ==
    followCalled =>
        LET flw == follow(rulesNow, startNow)
        IN  /\ DOMAIN flw = keysNow
            /\ \A x \in keysNow : isSet(flw[x]) /\ members(flw[x]) = leastFollow[x]

\* C26 witness: the table of the arithmetic grammar is built; the follow set of mulExpr
\* holds mul from its own rule, add through addExpr and '$' through addExpr and root
C26_Witness ==
    /\ followCalled
    /\ grammar = "arith"
    /\ pc = "ready"
    /\ members(follow(rulesNow, startNow)["mulExpr"]) = {"mul", "add", "$"}
    /\ members(follow(rulesNow, startNow)["root"]) = {"$"}

\* the items of a sequence without those that occurred earlier in it
RECURSIVE firstOnes(_)
firstOnes(items) ==
    IF items = <<>> THEN <<>>
    ELSE LET front == SubSeq(items, 1, Len(items) - 1)
         IN  IF Has(front, items[Len(items)]) THEN firstOnes(front)
             ELSE Append(firstOnes(front), items[Len(items)])

\* the element at the dot of an item, "" when the dot is at the end
atDot(item) == IF item.dot < Len(item.children) THEN item.children[item.dot + 1] ELSE ""

moved(item, by) == DottedRule(item.key, item.children, item.dot + by)

\* what goto is to emit for one source item: nothing unless el is at its dot, else
\* the closure of the item advanced and, for a repeatable element, that of the item
\* itself after it
emittedFor(item, el) ==
    IF item.dot >= Len(item.children) \/ stripped(atDot(item)) # el THEN <<>>
    ELSE closure(rulesNow, moved(item, 1))
           \o (IF quantifier(atDot(item)) \in {"*", "+"}
               THEN closure(rulesNow, moved(item, 0)) ELSE <<>>)

emitted(items, el) == Flatten([n \in 1..Len(items) |-> emittedFor(items[n], el)])

\* the table was built: goto was called for the states and returned
built == pc = "ready" /\ states # <<>>

\* C27: goto(items, el) emits, for each item whose symbol at the dot has base el, the
\* closure of the item with the dot advanced by one and, only if that element is
\* repeatable, after it the closure of the item with the dot where it is; the output
\* holds no two equal items and keeps the order of emission: advance before stay for
\* one source item, source items in their order.
C27_GotoEmits ==
    built =>
        \A s \in 1..Len(states) :
            \A el \in symbolsOf(rulesNow) :
                /\ goto(rulesNow, states[s], el).error = Undefined
                /\ goto(rulesNow, states[s], el).output = firstOnes(emitted(states[s], el))

\* C27 witness: from the state after "[" of the list grammar, goto on item emits the
\* item past item* advanced and then the item itself with the dot unchanged
C27_Witness ==
    /\ built
    /\ grammar = "listStar"
    /\ \E s \in 1..Len(states) :
          /\ states[s][1] = DottedRule("list", <<"[", "item*", "]">>, 1)
          /\ LET out == goto(rulesNow, states[s], "item").output
             IN  /\ out[1] = DottedRule("list", <<"[", "item*", "]">>, 2)
                 /\ Has(out, DottedRule("list", <<"[", "item*", "]">>, 1))
                 /\ isSet(out)

\* the item and what follows it over elements that can be left out
chainOf(item) ==
    [d \in 1..(1 + Cardinality({n \in (item.dot + 1)..Len(item.children) :
                                   omissible(item.children, item.dot + 1, n)}))
        |-> moved(item, d - 1)]

\* the items goto comes upon for the 0-based source item i moved by j, each with
\* whether it lies in the chain of the moved item
visitsOf(items, src, j) ==
    LET baseRule == moved(items[src + 1], j)
        reached == closure(rulesNow, baseRule)
    IN  [n \in 1..Len(reached)
            |-> [item |-> reached[n], direct |-> Has(chainOf(baseRule), reached[n]),
                 source |-> src]]

\* all of them, in the order goto comes upon them when nothing is thrown
visits(items, el) ==
    Flatten([n \in 1..Len(items) |->
               IF items[n].dot >= Len(items[n].children) \/ stripped(atDot(items[n])) # el
               THEN <<>>
               ELSE visitsOf(items, n - 1, 1)
                      \o (IF quantifier(atDot(items[n])) \in {"*", "+"}
                          THEN visitsOf(items, n - 1, 0) ELSE <<>>)])

\* an item is come upon as a direct successor of two different source items, or once
\* as a direct successor and once through closure only
ambiguousOrigin(seen) ==
    \E n, k \in 1..Len(seen) :
        /\ seen[n].item = seen[k].item
        /\ \/ seen[n].direct /\ seen[k].direct /\ seen[n].source # seen[k].source
           \/ seen[n].direct /\ ~seen[k].direct

\* every item of every rule, and the item the table starts from
itemsNow ==
    {DottedRule(startNow, <<startNow>>, 0)}
      \cup UNION {UNION {{DottedRule(rulesNow[k].key, rulesNow[k].rules[r], d)
                            : d \in 0..Len(rulesNow[k].rules[r])}
                          : r \in 1..Len(rulesNow[k].rules)}
                   : k \in 1..Len(rulesNow)}

\* the item sets goto is tried on: the closure of every item, and the states built
itemSetsNow == {closure(rulesNow, item) : item \in itemsNow} \cup members(states)

\* C28: in the result of goto, cameFrom[r] is defined exactly for the items produced
\* that lie in the skipOmit chain of an advanced (or stayed) source item, and is then
\* the index of that source item; if an item would be produced as a direct successor
\* of two different source items, or once as a direct successor and once through
\* closure only, goto throws a reduce/reduce conflict error, whichever of the two it
\* comes upon first, and it throws in no other case.
C28_CameFrom ==
    followCalled =>
        \A items \in itemSetsNow :
            \A el \in symbolsOf(rulesNow) :
                LET g == goto(rulesNow, items, el)
                    seen == visits(items, el)
                IN  /\ ambiguousOrigin(seen) <=> g.error # Undefined
                    /\ g.error # Undefined =>
                          \E n \in 1..Len(items) :
                              g.error = Some(conflictMessage(items[n], "reduce/reduce"))
                    /\ g.error = Undefined =>
                          \A r \in 1..Len(g.output) :
                              LET direct == {n \in 1..Len(seen) :
                                               seen[n].item = g.output[r] /\ seen[n].direct}
                              IN  /\ Get(g.cameFrom, r - 1) # Undefined <=> direct # {}
                                  /\ \A n \in direct :
                                        Get(g.cameFrom, r - 1) = Some(seen[n].source)

\* an item set and a symbol for which goto throws, an item being come upon first as
\* the given kind of successor of the source item at 0-based index src and later as
\* the other kind
thrownAfter(directFirst, src) ==
    \E items \in itemSetsNow :
        \E el \in symbolsOf(rulesNow) :
            /\ goto(rulesNow, items, el).error # Undefined
            /\ LET seen == visits(items, el)
               IN  \E n, k \in 1..Len(seen) :
                       /\ n < k
                       /\ seen[n].item = seen[k].item
                       /\ seen[n].source = src
                       /\ seen[n].direct = directFirst
                       /\ seen[k].direct = ~directFirst

\* C28 witness: the constructor failed with goto's error for k -> a? b | a k, where
\* goto on a comes upon k -> a? . b as the direct successor of k -> . a? b first and
\* through the closure of k -> a . k later
C28_Witness ==
    /\ pc = "failed"
    /\ grammar = "chainThenClosure"
    /\ error = Some(conflictMessage(DottedRule("k", <<"a", "k">>, 0), "reduce/reduce"))
    /\ thrownAfter(TRUE, 1)

\* the types are those of symbols matched by the elements, one after the other, each
\* element as often as its quantifier allows
RECURSIVE matchedBy(_, _)
matchedBy(types, els) ==
    IF els = <<>> THEN types = <<>>
    ELSE \/ quantifier(els[1]) \in {"*", "?"} /\ matchedBy(types, Tail(els))
         \/ /\ types # <<>>
            /\ types[1] = stripped(els[1])
            /\ \/ matchedBy(Tail(types), Tail(els))
               \/ quantifier(els[1]) \in {"*", "+"} /\ matchedBy(Tail(types), els)

\* C29: at each reduce step of parse, for every table buildTable builds and whatever
\* the tokens, the width read from readStack[top][action.rule] is a defined integer n
\* with 1 <= n <= symbolStack.length: the number of stack entries shifted under the
\* item since its rule was entered, so that the n entries popped are the symbols the
\* elements of the rule matched.
C29_WidthDefined ==
    taken.kind = "reduce" =>
        /\ taken.symbolsRead # Undefined
        /\ taken.symbolsRead[1] >= 1
        /\ taken.popped = taken.symbolsRead[1]
        /\ Len(taken.parent.children) = taken.symbolsRead[1]
        /\ matchedBy(typesOf(taken.parent.children), taken.item.children)

\* the 0-based places of the completed items of the start symbol in a state
startItems(state) ==
    {j \in 0..(Len(state) - 1) :
        At(state, j).dot = Len(At(state, j).children) /\ At(state, j).key = startNow}

\* C30: no table buildTable builds holds a reduce action whose key is the start
\* symbol: a completed item whose key is the start symbol, the item the table starts
\* from or a production of the start symbol among the rules, gives the accept action
\* on '$' and no action on any other lookahead.
C30_StartNeverReduced ==
    built =>
        \A s \in 1..Len(actionTable) :
            /\ \A el \in DOMAIN actionTable[s] :
                  actionTable[s][el].type = "reduce" =>
                      /\ actionTable[s][el].key # startNow
                      /\ actionTable[s][el].rule \notin startItems(states[s])
            /\ startItems(states[s]) # {} =>
                  /\ "$" \in DOMAIN actionTable[s]
                  /\ actionTable[s]["$"] = AcceptAction(startNow)

\* C30 witness: the table for A -> A x | x with start A is built; the state after A
\* holds the completed item A -> A . of the start and the state after A x the completed
\* production A -> A x . , and both have the accept on '$' as their only entry for it
C30_Witness ==
    /\ built
    /\ grammar = "leftRec"
    /\ \E s \in 1..Len(states) :
          /\ Has(states[s], DottedRule("A", <<"A", "x">>, 2))
          /\ actionTable[s] = [el \in {"$"} |-> AcceptAction("A")]
    /\ \E s \in 1..Len(states) :
          /\ Has(states[s], DottedRule("A", <<"A">>, 1))
          /\ actionTable[s]["$"] = AcceptAction("A")

\* C31: parse terminates, with a tree or an error, for every table built and every
\* finite sequence of tokens ending in '$', the patterns of the terminals matching
\* non-empty text only: no run of shift, reduce, whitespace-skip and line-advance
\* steps goes on for ever.
C31_ParseTerminates == (pc = "parsing") ~> (pc = "done")

\* C31 witness: a parse that skipped whitespace, went on to a second line, shifted and
\* reduced has ended
C31_Witness ==
    /\ pc = "done"
    /\ grammar = "listStar"
    /\ input = "[a\n]"
    /\ fromSplit
    /\ i = 2
    /\ taken.kind \in {"accept", "noAction", "lexerThrows"}

\* the leaves of a tree, left to right
RECURSIVE leafTokens(_)
leafTokens(tree) ==
    IF "children" \in DOMAIN tree
    THEN Flatten([n \in 1..Len(tree.children) |-> leafTokens(tree.children[n])])
    ELSE <<tree>>

\* the leaves of the trees of a stack, bottom to top
stackLeaves(stack) == Flatten([n \in 1..Len(stack) |-> leafTokens(stack[n])])

\* the leaf is a token of the source: one of the tokens handed to parse, or a stretch
\* of the line handed to parse as an unknown token
ofSource(leaf) ==
    \/ Has(tokens, leaf)
    \/ /\ fromSplit
       /\ leaf.line + 1 \in 1..Len(tokens)
       /\ tokens[leaf.line + 1].type = "unknown"
       /\ leaf.match # ""
       /\ leaf.index + Len(leaf.match) <= Len(tokens[leaf.line + 1].match)
       /\ leaf.match = SubSeq(tokens[leaf.line + 1].match, leaf.index + 1,
                              leaf.index + Len(leaf.match))

\* the leaves are tokens of the source in source order, none twice, and none is
\* whitespace, an unknown token or the end of a line
inSourceOrder(leaves) ==
    /\ \A n \in 1..Len(leaves) :
          /\ leaves[n].type \notin {"whitespace", "unknown", "$"}
          /\ ofSource(leaves[n])
    /\ \A n \in 1..(Len(leaves) - 1) :
          \/ leaves[n].line < leaves[n + 1].line
          \/ /\ leaves[n].line = leaves[n + 1].line
             /\ leaves[n].index + Len(leaves[n].match) <= leaves[n + 1].index

\* C32: for every successful parse the leaves of the tree returned, read left to
\* right, are exactly the tokens that were shifted, in source order and each once: a
\* shift adds its token as the last leaf of the stack and no other step changes the
\* leaves of the stack, which are the leaves of the tree in the end; no whitespace
\* token, no unknown token and no '$' is among them.
C32_LeavesAreShifted ==
    /\ [](pc \in {"parsing", "done"} =>
            /\ result.kind # "TypeError" => inSourceOrder(stackLeaves(symbolStack))
            /\ result.kind = "tree" =>
                  leafTokens(result.tree) = stackLeaves(symbolStack))
    /\ [][(pc = "parsing" /\ result'.kind # "TypeError") =>
             IF taken'.kind = "shift"
             THEN stackLeaves(symbolStack') = Append(stackLeaves(symbolStack), token)
             ELSE stackLeaves(symbolStack') = stackLeaves(symbolStack)]_vars

\* C32 witness: the tree returned for "3 + 2 * 1" has the five tokens shifted as its
\* leaves, the whitespace between them skipped
C32_Witness ==
    /\ pc = "done"
    /\ grammar = "arith"
    /\ input = "3 + 2 * 1"
    /\ result.kind = "tree"
    /\ Len(leafTokens(result.tree)) = 5
    /\ [n \in 1..5 |-> leafTokens(result.tree)[n].index] = <<0, 2, 4, 6, 8>>
    /\ inSourceOrder(leafTokens(result.tree))

\* the number of tokens of a type in a sequence of tokens
countOf(given, type) == Cardinality({k \in 1..Len(given) : given[k].type = type})

\* the scan of splitOffside after the first n of the lines: the output so far, the
\* indent stack, and the error if a line was refused
scanned(lines, n) == offsideLoop(SubSeq(lines, 1, n), 0, <<>>, <<0>>)

\* C33: in every sequence returned by splitOffside the dedents are as many as the
\* indents and in no prefix more than the indents; throughout the scan the indent
\* stack is strictly increasing from its bottom element 0 (and one level deeper for
\* every indent not yet closed by a dedent); a blank line adds its unknown token
\* only and leaves the stack as it was.
C33_IndentsBalance ==
    (pc = "called" /\ taken.kind = "splitOffside") =>
        LET lines == SelectSeqOf(splitLines(taken.input, 0, ""), taken.comment)
            got == taken.out.tokens
        IN  /\ \A n \in 0..Len(lines) :
                   LET here == scanned(lines, n)
                   IN  /\ here.level # <<>>
                       /\ here.level[1] = 0
                       /\ \A k \in 1..(Len(here.level) - 1) :
                              here.level[k] < here.level[k + 1]
                       /\ Len(here.level) - 1 =
                              countOf(here.tokens, "indent") - countOf(here.tokens, "dedent")
                       /\ taken.out.error = Undefined =>
                              /\ here.error = Undefined
                              /\ SubSeq(got, 1, Len(here.tokens)) = here.tokens
                       /\ (n > 0 /\ scanned(lines, n - 1).error = Undefined
                                 /\ blank(lines[n])) =>
                              /\ here.tokens =
                                     Append(scanned(lines, n - 1).tokens,
                                            LexTree("unknown", lines[n], 0, n - 1))
                              /\ here.level = scanned(lines, n - 1).level
            /\ taken.out.error = Undefined =>
                   /\ countOf(got, "dedent") = countOf(got, "indent")
                   /\ \A p \in 0..Len(got) :
                          countOf(SubSeq(got, 1, p), "dedent")
                              <= countOf(SubSeq(got, 1, p), "indent")

\* C33 witness: splitOffside returned for a text with two nested blocks and a blank
\* line of one space inside them: two indents, the blank line between them, and two
\* dedents before the last line
C33_Witness ==
    /\ pc = "called"
    /\ taken.kind = "splitOffside"
    /\ taken.input = "a\n b\n \n  c\nd"
    /\ taken.comment = Undefined
    /\ taken.out.error = Undefined
    /\ [n \in 1..Len(taken.out.tokens) |-> taken.out.tokens[n].type] =
           <<"unknown", "indent", "unknown", "unknown", "indent", "unknown",
             "dedent", "dedent", "unknown", "$">>

====
